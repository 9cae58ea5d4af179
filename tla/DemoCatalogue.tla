--------------------------- MODULE DemoCatalogue ---------------------------
(***************************************************************************)
(* What the demo seeds create (apps/api/src/database): the structure, the  *)
(* metrics and the objectives of a municipality, a factory and a           *)
(* foundation.  Names, visions and descriptions are left out; a metric's   *)
(* values are tenths of its unit, a date is a month and a day of the year  *)
(* under way, and "none" stands for null.                                  *)
(***************************************************************************)
EXTENDS MetricsCalendar, TLC

\* SeedUnit, SeedMetric, SeedIndicator, SeedTask, SeedProject, SeedObjective.
U(key, kind, parent) == [key |-> key, kind |-> kind, parent |-> parent]
M(key, kind, direction, frequency, baseline, target, entries) ==
    [key |-> key, kind |-> kind, direction |-> direction, frequency |-> frequency,
     baseline |-> baseline, target |-> target, entries |-> entries, points |-> <<>>]
I(metric, weight, feeds) == [metric |-> metric, weight |-> weight, feeds |-> feeds]
T(owner, start, end, progress, weight) ==
    [owner |-> owner, start |-> start, end |-> end, progress |-> progress, weight |-> weight]
P(key, owner, weight, contribution, tasks) ==
    [key |-> key, owner |-> owner, weight |-> weight,
     contribution |-> contribution, tasks |-> tasks]
O(key, unit, axis, owner, indicators, contexts, projects) ==
    [key |-> key, unit |-> unit, axis |-> axis, owner |-> owner,
     indicators |-> indicators, contexts |-> contexts, projects |-> projects]

-----------------------------------------------------------------------------
(* Municipalidad de San Carrillo: seed-demo-san-carrillo.ts               *)

\* unitDefs, in the order they are created: kind and parent.
CarrilloUnits == <<U("obras", "ministry", "central"),
    U("modernizacion", "ministry", "central"), U("verdes", "area", "obras")>>

\* The axes of the plan.
CarrilloAxes == <<"urbano", "servicios">>

\* METRICS, with the increments loaded: bucket and tenths of a unit.
CarrilloMetrics == <<
    M("ciclovias", "output", "increasing", "monthly", 0, 200,
        <<<<0, 15>>, <<1, 20>>, <<2, 25>>, <<4, 10>>>>),
    [M("bicicleta", "outcome", "increasing", "semiannual", 120, 300,
        <<<<0, 40>>, <<1, 30>>>>) EXCEPT !.points = <<<<0, 180>>, <<1, 300>>>>],
    M("arboles", "output", "increasing", "monthly", 0, 15000,
        <<<<1, 1200>>, <<2, 2100>>, <<3, 1800>>, <<5, 1500>>>>),
    M("verde", "outcome", "increasing", "annual", 90, 105, <<<<0, 4>>>>),
    M("tramites", "output", "increasing", "monthly", 0, 1000,
        <<<<0, 100>>, <<1, 150>>, <<3, 200>>>>),
    M("espera", "outcome", "decreasing", "quarterly", 180, 80,
        <<<<0, -20>>, <<1, -30>>>>),
    M("luminarias", "output", "increasing", "monthly", 0, 24000,
        <<<<2, 3000>>, <<3, 4200>>, <<4, 3800>>>>),
    M("reclamos", "outcome", "decreasing", "monthly", 1200, 400,
        <<<<0, -150>>, <<1, -100>>, <<3, -180>>>>)>>

\* OBJECTIVES, ciclovias.
CarrilloObjectiveCiclovias == O("ciclovias", "obras", "urbano", "adm",
    <<I("ciclovias", 7000, TRUE), I("bicicleta", 3000, FALSE)>>, <<"reclamos">>, <<
    P("costanera", "adm", 6000, <<"ciclovias", 80>>, <<
        T("adm", <<1, 5>>, <<2, 28>>, 10000, 2000),
        T("adm", <<3, 1>>, <<4, 30>>, 10000, 2000),
        T("adm", <<5, 1>>, <<10, 31>>, 6000, 6000)>>),
    P("bicisendas", "adm", 4000, <<"ciclovias", 40>>, <<
        T("adm", <<2, 1>>, <<3, 31>>, 10000, 4000),
        T("adm", <<4, 1>>, <<8, 31>>, 3000, 6000)>>)>>)

\* OBJECTIVES, verde.
CarrilloObjectiveVerde == O("verde", "verdes", "urbano", "adm",
    <<I("arboles", NoWeight, FALSE), I("verde", NoWeight, FALSE)>>, <<>>, <<
    P("forestacion", "adm", NoWeight, <<>>, <<
        T("adm", <<1, 10>>, <<2, 20>>, 10000, NoWeight),
        T("adm", <<3, 1>>, <<11, 15>>, 5500, NoWeight),
        T("adm", <<4, 1>>, <<9, 30>>, 2000, NoWeight)>>),
    P("parque", "adm", NoWeight, <<>>, <<
        T("adm", <<2, 1>>, <<5, 31>>, 8000, NoWeight),
        T("adm", <<6, 1>>, <<12, 15>>, 1000, NoWeight)>>)>>)

\* OBJECTIVES, tramites.
CarrilloObjectiveTramites == O("tramites", "modernizacion", "servicios", "adm",
    <<I("tramites", NoWeight, FALSE), I("espera", NoWeight, FALSE)>>, <<>>, <<
    P("portal", "adm", NoWeight, <<>>, <<
        T("adm", <<1, 15>>, <<3, 31>>, 10000, NoWeight),
        T("adm", <<4, 1>>, <<8, 31>>, 7000, NoWeight),
        T("adm", <<9, 1>>, <<10, 31>>, 0, NoWeight)>>),
    P("ventanilla", "adm", NoWeight, <<>>, <<
        T("adm", <<2, 1>>, <<4, 30>>, 10000, NoWeight),
        T("adm", <<5, 1>>, <<7, 31>>, 4000, NoWeight)>>)>>)

\* OBJECTIVES, alumbrado.
CarrilloObjectiveAlumbrado == O("alumbrado", "obras", "servicios", "adm",
    <<I("luminarias", NoWeight, FALSE)>>, <<>>, <<
    P("led1", "adm", NoWeight, <<>>, <<
        T("adm", <<1, 20>>, <<3, 15>>, 10000, NoWeight),
        T("adm", <<3, 16>>, <<9, 30>>, 7500, NoWeight)>>)>>)

\* OBJECTIVES, atencion.
CarrilloObjectiveAtencion == O("atencion", "modernizacion", "none", "adm",
    <<I("reclamos", NoWeight, FALSE)>>, <<>>, <<
    P("linea147", "adm", NoWeight, <<>>, <<
        T("adm", <<2, 15>>, <<6, 30>>, 9000, NoWeight),
        T("adm", <<7, 1>>, <<10, 15>>, 2500, NoWeight)>>)>>)

CarrilloObjectives == <<CarrilloObjectiveCiclovias, CarrilloObjectiveVerde,
    CarrilloObjectiveTramites, CarrilloObjectiveAlumbrado, CarrilloObjectiveAtencion>>

-----------------------------------------------------------------------------
(* Lumbre Electrodomesticos S.A.: seed-demo-lumbre.ts                     *)

\* UNITS, in the order they are created: kind and parent.
LumbreUnits == <<U("operaciones", "ministry", "central"),
    U("comercial", "ministry", "central"), U("ingenieria", "ministry", "central"),
    U("personas", "ministry", "central"), U("planta", "area", "operaciones"),
    U("calidad", "area", "operaciones"), U("abastecimiento", "area", "operaciones"),
    U("ventas", "area", "comercial"), U("ecommerce", "area", "comercial"),
    U("posventa", "area", "comercial")>>

\* PEOPLE: who answers for what, and the unit that limits where they write.
LumbrePeople == <<<<"mrodriguez", "planta">>, <<"lfernandez", "calidad">>,
    <<"cpereyra", "ecommerce">>, <<"dsosa", "posventa">>, <<"aibarra", "ingenieria">>,
    <<"gmolina", "personas">>, <<"sbenitez", "operaciones">>>>

\* AXES.
LumbreAxes == <<"excelencia", "crecimiento", "innovacion", "sustentabilidad", "personas">>

\* METRICS, with the increments loaded: bucket and tenths of a unit.
LumbreMetrics == <<
    M("oee", "outcome", "increasing", "monthly", 620, 750,
        <<<<1, 10>>, <<3, 20>>, <<5, 20>>, <<7, 15>>, <<9, 15>>>>),
    M("reclamos-garantia", "outcome", "decreasing", "quarterly", 180, 100,
        <<<<0, -10>>, <<1, -20>>, <<2, -25>>, <<3, -5>>>>),
    M("online", "outcome", "increasing", "monthly", 120, 200,
        <<<<2, 5>>, <<4, 5>>, <<6, 5>>, <<8, 5>>>>),
    M("nps", "outcome", "increasing", "monthly", 320, 450,
        <<<<1, 10>>, <<3, 20>>, <<5, 10>>, <<7, 20>>, <<9, 10>>>>),
    M("inverter", "output", "increasing", "monthly", 0, 40, <<>>),
    M("kwh", "outcome", "decreasing", "monthly", 380, 300,
        <<<<2, -6>>, <<4, -8>>, <<6, -8>>, <<8, -7>>, <<9, -5>>>>),
    M("accidentes", "outcome", "decreasing", "quarterly", 60, 0,
        <<<<0, -10>>, <<1, -10>>, <<2, -10>>, <<3, -10>>>>),
    M("capacitacion", "output", "increasing", "monthly", 0, 18000,
        <<<<0, 1200>>, <<1, 1500>>, <<2, 2000>>, <<3, 1800>>, <<4, 1600>>, <<5, 2200>>,
          <<6, 1400>>, <<7, 2100>>, <<8, 1900>>, <<9, 800>>>>)>>

\* OBJECTIVES, oee.
LumbreObjectiveOee == O("oee", "planta", "excelencia", "mrodriguez",
    <<I("oee", NoWeight, FALSE)>>, <<>>, <<
    P("tpm", "mrodriguez", 6000, <<>>, <<
        T("mrodriguez", <<1, 12>>, <<2, 27>>, 10000, 2000),
        T("mrodriguez", <<3, 2>>, <<5, 29>>, 10000, 2000),
        T("mrodriguez", <<6, 1>>, <<9, 30>>, 6000, 3500),
        T("mrodriguez", <<10, 1>>, <<12, 18>>, 0, 2500)>>),
    P("smed", "mrodriguez", 4000, <<>>, <<
        T("mrodriguez", <<2, 2>>, <<3, 13>>, 10000, 2000),
        T("sbenitez", <<3, 16>>, <<7, 31>>, 10000, 3000),
        T("mrodriguez", <<8, 3>>, <<10, 30>>, 5000, 3000),
        T("mrodriguez", <<11, 2>>, <<12, 11>>, 0, 2000)>>)>>)

\* OBJECTIVES, garantia.
LumbreObjectiveGarantia == O("garantia", "calidad", "excelencia", "lfernandez",
    <<I("reclamos-garantia", NoWeight, FALSE)>>, <<>>, <<
    P("vida-acelerada", "lfernandez", NoWeight, <<>>, <<
        T("lfernandez", <<1, 19>>, <<3, 6>>, 10000, NoWeight),
        T("lfernandez", <<3, 9>>, <<6, 19>>, 10000, NoWeight),
        T("lfernandez", <<6, 22>>, <<11, 13>>, 7500, NoWeight),
        T("sbenitez", <<11, 16>>, <<12, 18>>, 0, NoWeight)>>)>>)

\* OBJECTIVES, online.
LumbreObjectiveOnline == O("online", "ecommerce", "crecimiento", "cpereyra",
    <<I("online", NoWeight, FALSE)>>, <<>>, <<
    P("tienda", "cpereyra", NoWeight, <<>>, <<
        T("cpereyra", <<2, 2>>, <<3, 13>>, 10000, NoWeight),
        T("cpereyra", <<3, 16>>, <<8, 14>>, 7000, NoWeight),
        T("cpereyra", <<7, 1>>, <<9, 11>>, 2500, NoWeight),
        T("cpereyra", <<9, 14>>, <<11, 30>>, 0, NoWeight)>>),
    P("marketplaces", "cpereyra", NoWeight, <<>>, <<
        T("cpereyra", <<3, 2>>, <<5, 29>>, 10000, NoWeight),
        T("cpereyra", <<6, 1>>, <<10, 16>>, 3500, NoWeight),
        T("cpereyra", <<9, 1>>, <<11, 27>>, 0, NoWeight),
        T("cpereyra", <<11, 2>>, <<12, 18>>, 0, NoWeight)>>)>>)

\* OBJECTIVES, posventa.
LumbreObjectivePosventa == O("posventa", "posventa", "crecimiento", "dsosa",
    <<I("nps", NoWeight, FALSE)>>, <<>>, <<
    P("red-service", "dsosa", NoWeight, <<>>, <<
        T("dsosa", <<1, 12>>, <<2, 27>>, 10000, NoWeight),
        T("dsosa", <<3, 2>>, <<6, 30>>, 10000, NoWeight),
        T("dsosa", <<7, 1>>, <<9, 30>>, 9000, NoWeight),
        T("sbenitez", <<8, 3>>, <<11, 27>>, 4500, NoWeight),
        T("dsosa", <<11, 2>>, <<12, 18>>, 0, NoWeight)>>)>>)

\* OBJECTIVES, inverter.
LumbreObjectiveInverter == O("inverter", "ingenieria", "innovacion", "aibarra",
    <<I("inverter", NoWeight, TRUE)>>, <<>>, <<
    P("inv-heladera", "aibarra", NoWeight, <<"inverter", 10>>, <<
        T("aibarra", <<1, 12>>, <<3, 13>>, 10000, NoWeight),
        T("aibarra", <<3, 16>>, <<5, 15>>, 10000, NoWeight),
        T("lfernandez", <<5, 18>>, <<6, 26>>, 10000, NoWeight),
        T("mrodriguez", <<6, 29>>, <<7, 31>>, 10000, NoWeight)>>),
    P("inv-lavarropas", "aibarra", NoWeight, <<"inverter", 10>>, <<
        T("aibarra", <<1, 26>>, <<3, 27>>, 10000, NoWeight),
        T("aibarra", <<3, 30>>, <<6, 5>>, 10000, NoWeight),
        T("lfernandez", <<6, 8>>, <<7, 17>>, 10000, NoWeight),
        T("mrodriguez", <<7, 20>>, <<8, 21>>, 10000, NoWeight)>>),
    P("inv-freezer", "aibarra", NoWeight, <<"inverter", 10>>, <<
        T("aibarra", <<3, 2>>, <<5, 8>>, 10000, NoWeight),
        T("aibarra", <<5, 11>>, <<7, 31>>, 10000, NoWeight),
        T("lfernandez", <<8, 3>>, <<9, 18>>, 6000, NoWeight),
        T("mrodriguez", <<9, 21>>, <<10, 30>>, 0, NoWeight)>>),
    P("inv-aire", "aibarra", NoWeight, <<"inverter", 10>>, <<
        T("aibarra", <<6, 1>>, <<8, 14>>, 8000, NoWeight),
        T("aibarra", <<8, 17>>, <<11, 13>>, 2000, NoWeight),
        T("lfernandez", <<11, 16>>, <<12, 4>>, 0, NoWeight),
        T("mrodriguez", <<12, 7>>, <<12, 22>>, 0, NoWeight)>>)>>)

\* OBJECTIVES, energia.
LumbreObjectiveEnergia == O("energia", "operaciones", "sustentabilidad", "sbenitez",
    <<I("kwh", NoWeight, FALSE)>>, <<>>, <<
    P("paneles", "sbenitez", NoWeight, <<>>, <<
        T("sbenitez", <<1, 12>>, <<2, 20>>, 10000, NoWeight),
        T("sbenitez", <<2, 23>>, <<4, 30>>, 10000, NoWeight),
        T("mrodriguez", <<5, 4>>, <<9, 11>>, 8000, NoWeight),
        T("sbenitez", <<9, 14>>, <<10, 30>>, 2000, NoWeight),
        T("sbenitez", <<11, 2>>, <<11, 27>>, 0, NoWeight)>>)>>)

\* OBJECTIVES, seguridad.
LumbreObjectiveSeguridad == O("seguridad", "personas", "personas", "gmolina",
    <<I("accidentes", NoWeight, FALSE)>>, <<"capacitacion">>, <<
    P("cinco-s", "gmolina", NoWeight, <<>>, <<
        T("gmolina", <<2, 2>>, <<3, 13>>, 10000, NoWeight),
        T("gmolina", <<3, 16>>, <<6, 12>>, 10000, NoWeight),
        T("gmolina", <<6, 15>>, <<9, 25>>, 10000, NoWeight),
        T("gmolina", <<9, 28>>, <<12, 18>>, 2500, NoWeight)>>)>>)

LumbreObjectives == <<LumbreObjectiveOee, LumbreObjectiveGarantia, LumbreObjectiveOnline,
    LumbreObjectivePosventa, LumbreObjectiveInverter, LumbreObjectiveEnergia,
    LumbreObjectiveSeguridad>>

-----------------------------------------------------------------------------
(* Fundacion Semillero del Sur: seed-demo-semillero.ts                    *)

\* UNITS, in the order they are created: kind and parent.
SemilleroUnits == <<U("programas", "ministry", "central"),
    U("fondos", "ministry", "central"), U("administracion", "ministry", "central"),
    U("voluntariado", "ministry", "central"), U("empleo", "area", "programas"),
    U("terminalidad", "area", "programas"), U("emprendedores", "area", "programas")>>

\* PEOPLE: who answers for what, and the unit that limits where they write.
SemilleroPeople == <<<<"lcabrera", "empleo">>, <<"rpaz", "empleo">>,
    <<"mgimenez", "terminalidad">>, <<"jrios", "emprendedores">>, <<"vsuarez", "fondos">>,
    <<"pbustos", "administracion">>, <<"nmendez", "voluntariado">>>>

\* AXES.
SemilleroAxes == <<"laboral", "educacion", "sostenibilidad", "comunidad">>

\* METRICS, with the increments loaded: bucket and tenths of a unit.
SemilleroMetrics == <<
    M("jovenes", "output", "increasing", "monthly", 3000, 6000, <<>>),
    M("empleo", "outcome", "increasing", "quarterly", 350, 500,
        <<<<0, 20>>, <<1, 40>>, <<2, 50>>>>),
    M("secundario", "outcome", "increasing", "quarterly", 400, 600,
        <<<<0, 30>>, <<1, 30>>, <<2, 40>>>>),
    M("donantes", "outcome", "increasing", "monthly", 8000, 15000,
        <<<<1, 400>>, <<3, 600>>, <<5, 500>>, <<7, 550>>, <<9, 450>>>>),
    M("emprendimientos", "outcome", "increasing", "quarterly", 200, 450,
        <<<<0, 60>>, <<1, 60>>, <<2, 60>>>>),
    M("voluntarios", "outcome", "increasing", "monthly", 600, 1200,
        <<<<1, 50>>, <<3, 80>>, <<5, 80>>, <<7, 90>>, <<9, 100>>>>),
    M("horas", "output", "increasing", "monthly", 0, 40000,
        <<<<0, 1200>>, <<1, 1800>>, <<2, 2600>>, <<3, 3100>>, <<4, 3400>>, <<5, 3000>>,
          <<6, 3800>>, <<7, 4200>>, <<8, 3900>>, <<9, 1500>>>>)>>

\* OBJECTIVES, oficios.
SemilleroObjectiveOficios == O("oficios", "empleo", "laboral", "lcabrera",
    <<I("jovenes", NoWeight, TRUE)>>, <<>>, <<
    P("electricidad", "rpaz", NoWeight, <<"jovenes", 700>>, <<
        T("lcabrera", <<1, 19>>, <<2, 13>>, 10000, NoWeight),
        T("rpaz", <<2, 16>>, <<4, 24>>, 10000, NoWeight),
        T("rpaz", <<4, 27>>, <<4, 30>>, 10000, NoWeight)>>),
    P("gastronomia", "lcabrera", NoWeight, <<"jovenes", 650>>, <<
        T("lcabrera", <<3, 2>>, <<3, 27>>, 10000, NoWeight),
        T("rpaz", <<3, 16>>, <<4, 24>>, 10000, NoWeight),
        T("lcabrera", <<4, 27>>, <<7, 10>>, 10000, NoWeight),
        T("lcabrera", <<7, 13>>, <<7, 17>>, 10000, NoWeight)>>),
    P("programacion", "rpaz", NoWeight, <<"jovenes", 750>>, <<
        T("lcabrera", <<6, 1>>, <<6, 26>>, 10000, NoWeight),
        T("rpaz", <<7, 6>>, <<10, 30>>, 6500, NoWeight),
        T("rpaz", <<11, 2>>, <<11, 20>>, 0, NoWeight)>>),
    P("soldadura", "lcabrera", NoWeight, <<"jovenes", 600>>, <<
        T("lcabrera", <<8, 3>>, <<8, 28>>, 10000, NoWeight),
        T("rpaz", <<8, 24>>, <<9, 25>>, 5000, NoWeight),
        T("rpaz", <<9, 28>>, <<12, 4>>, 800, NoWeight),
        T("lcabrera", <<12, 7>>, <<12, 18>>, 0, NoWeight)>>)>>)

\* OBJECTIVES, insercion.
SemilleroObjectiveInsercion == O("insercion", "empleo", "laboral", "lcabrera",
    <<I("empleo", NoWeight, FALSE)>>, <<>>, <<
    P("red-empresas", "lcabrera", NoWeight, <<>>, <<
        T("lcabrera", <<2, 2>>, <<3, 13>>, 10000, NoWeight),
        T("lcabrera", <<3, 16>>, <<7, 31>>, 10000, NoWeight),
        T("rpaz", <<6, 1>>, <<10, 30>>, 8000, NoWeight),
        T("rpaz", <<9, 1>>, <<12, 11>>, 2500, NoWeight),
        T("lcabrera", <<11, 2>>, <<11, 27>>, 0, NoWeight)>>)>>)

\* OBJECTIVES, terminalidad.
SemilleroObjectiveTerminalidad == O("terminalidad", "terminalidad", "educacion", "mgimenez",
    <<I("secundario", NoWeight, FALSE)>>, <<>>, <<
    P("tutorias", "mgimenez", NoWeight, <<>>, <<
        T("mgimenez", <<2, 2>>, <<3, 13>>, 10000, NoWeight),
        T("mgimenez", <<3, 16>>, <<5, 29>>, 10000, NoWeight),
        T("mgimenez", <<6, 1>>, <<11, 27>>, 5500, NoWeight),
        T("mgimenez", <<11, 30>>, <<12, 18>>, 0, NoWeight)>>)>>)

\* OBJECTIVES, fondos.
SemilleroObjectiveFondos == O("fondos", "fondos", "sostenibilidad", "vsuarez",
    <<I("donantes", NoWeight, FALSE)>>, <<>>, <<
    P("socios", "vsuarez", NoWeight, <<>>, <<
        T("vsuarez", <<2, 2>>, <<3, 27>>, 10000, NoWeight),
        T("pbustos", <<4, 1>>, <<7, 31>>, 5000, NoWeight),
        T("vsuarez", <<6, 1>>, <<11, 27>>, 2000, NoWeight),
        T("vsuarez", <<12, 1>>, <<12, 18>>, 0, NoWeight)>>),
    P("rse", "vsuarez", NoWeight, <<>>, <<
        T("vsuarez", <<2, 16>>, <<4, 10>>, 10000, NoWeight),
        T("vsuarez", <<4, 13>>, <<8, 28>>, 4500, NoWeight),
        T("vsuarez", <<9, 1>>, <<11, 27>>, 0, NoWeight)>>)>>)

\* OBJECTIVES, emprendimientos.
SemilleroObjectiveEmprendimientos == O("emprendimientos", "emprendedores", "laboral", "jrios",
    <<I("emprendimientos", NoWeight, FALSE)>>, <<>>, <<
    P("incubadora", "jrios", NoWeight, <<>>, <<
        T("jrios", <<3, 2>>, <<4, 17>>, 10000, NoWeight),
        T("jrios", <<4, 20>>, <<8, 28>>, 10000, NoWeight),
        T("jrios", <<9, 1>>, <<11, 13>>, 3000, NoWeight),
        T("jrios", <<7, 1>>, <<12, 11>>, 4000, NoWeight)>>)>>)

\* OBJECTIVES, voluntariado.
SemilleroObjectiveVoluntariado == O("voluntariado", "voluntariado", "comunidad", "nmendez",
    <<I("voluntarios", NoWeight, FALSE)>>, <<"horas">>, <<
    P("mentores", "nmendez", NoWeight, <<>>, <<
        T("nmendez", <<2, 2>>, <<3, 13>>, 10000, NoWeight),
        T("nmendez", <<3, 16>>, <<6, 30>>, 10000, NoWeight),
        T("nmendez", <<7, 1>>, <<9, 30>>, 10000, NoWeight),
        T("nmendez", <<10, 1>>, <<12, 11>>, 1000, NoWeight),
        T("nmendez", <<11, 16>>, <<12, 4>>, 0, NoWeight)>>)>>)

SemilleroObjectives == <<SemilleroObjectiveOficios, SemilleroObjectiveInsercion,
    SemilleroObjectiveTerminalidad, SemilleroObjectiveFondos,
    SemilleroObjectiveEmprendimientos, SemilleroObjectiveVoluntariado>>

-----------------------------------------------------------------------------
(* The organisations, in the order of seed-demo.ts.                        *)

Organizations == <<"demo", "lumbre", "semillero">>

\* What each file seeds: "applies" whether it also loads what the complete
\* projects contribute, as the application would.
Catalogue == [o \in {Organizations[n] : n \in 1..3} |->
    CASE o = "demo" ->
           [units |-> CarrilloUnits, people |-> <<>>, axes |-> CarrilloAxes,
            metrics |-> CarrilloMetrics, objectives |-> CarrilloObjectives,
            applies |-> FALSE]
      [] o = "lumbre" ->
           [units |-> LumbreUnits, people |-> LumbrePeople, axes |-> LumbreAxes,
            metrics |-> LumbreMetrics, objectives |-> LumbreObjectives,
            applies |-> TRUE]
      [] OTHER ->
           [units |-> SemilleroUnits, people |-> SemilleroPeople,
            axes |-> SemilleroAxes, metrics |-> SemilleroMetrics,
            objectives |-> SemilleroObjectives, applies |-> TRUE]]
=============================================================================
