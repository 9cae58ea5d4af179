--------------------------- MODULE ConnectorTools ---------------------------
(***************************************************************************)
(* The tools of the connector as McpToolRegistry lists them, all of which  *)
(* read: what each declares, which the dispatcher asks for, and the routes *)
(* of the API that answer what its handler reads.                          *)
(***************************************************************************)
EXTENDS RestRoutes

\* What defineTool is given besides the handler.
Tool(permission, modules) ==
    [kind |-> "read", needsOrganization |-> TRUE, permission |-> permission, modules |-> modules]

\* The routes whose services a handler calls, each with the permission it asks
\* its caller for before that call.
Always(routes) == {[route |-> r, needs |-> NoPermission] : r \in routes}

ListarOrganizaciones ==
    [declares |-> [Tool(NoPermission, {}) EXCEPT !.needsOrganization = FALSE],
     reads |-> Always({"me"})]

ListarPeriodos ==
    [declares |-> Tool(NoPermission, {}), reads |-> Always({"list periods"})]

VerArbolPlanificacion ==
    [declares |-> Tool("okr:read", {"okr"}),
     reads |-> Always({"planning tree", "get period"})]

ListarObjetivos ==
    [declares |-> Tool("okr:read", {"okr"}),
     reads |-> Always({"planning tree", "get period", "list units"})]

VerObjetivo ==
    [declares |-> Tool("okr:read", {"okr", "indicadores-gestion"}),
     reads |-> Always({"get objective", "objective status", "list indicators",
                       "list projects", "list units", "list axes"})]

\* The series goes only to those who may read metrics.
VerIndicador ==
    [declares |-> Tool("okr:read", {"okr", "indicadores-gestion"}),
     reads |-> Always({"get indicator", "indicator status", "get objective"})
               \cup {[route |-> "get series", needs |-> "metrics:read"]}]

ListarProyectosAtrasados ==
    [declares |-> Tool("okr:read", {"okr"}),
     reads |-> Always({"planning gantt", "get period"})]

VerProyecto ==
    [declares |-> Tool("okr:read", {"okr"}),
     reads |-> Always({"get project", "list tasks", "get objective", "list units"})]

\* McpToolRegistry.
Registry ==
    [t \in {"listar_organizaciones", "listar_periodos", "ver_arbol_planificacion",
            "listar_objetivos", "ver_objetivo", "ver_indicador", "listar_proyectos_atrasados",
            "ver_proyecto"} |->
      CASE t = "listar_organizaciones" -> ListarOrganizaciones
        [] t = "listar_periodos" -> ListarPeriodos
        [] t = "ver_arbol_planificacion" -> VerArbolPlanificacion
        [] t = "listar_objetivos" -> ListarObjetivos
        [] t = "ver_objetivo" -> VerObjetivo
        [] t = "ver_indicador" -> VerIndicador
        [] t = "listar_proyectos_atrasados" -> ListarProyectosAtrasados
        [] t = "ver_proyecto" -> VerProyecto]

\* The routes a tool reads for a caller with these permissions.
RoutesOf(tool, permissions) ==
    {x.route : x \in {y \in tool.reads :
        y.needs # NoPermission => HasPermission(permissions, y.needs)}}
=============================================================================
