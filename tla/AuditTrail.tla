----------------------------- MODULE AuditTrail -----------------------------
(***************************************************************************)
(* The audit trail: AuditEventEmitterService appends an event to the       *)
(* transaction that makes a change, and AuditQueryService lists events     *)
(* page by page, the latest first, while transactions go on committing.    *)
(*                                                                         *)
(* An event is its id, its instant and the organisation of its change; the *)
(* filters other than by organisation are left out.  The application dates *)
(* events in whole milliseconds, so a cursor holds their instant exactly.  *)
(*                                                                         *)
(* An operator described in parentheses is a slip of the one it precedes:  *)
(* no specification uses it.                                               *)
(***************************************************************************)
EXTENDS Integers, FiniteSets

CONSTANTS EventIds,      \* ordered as the database orders them: naturals
          Writers,       \* transactions that may be open
          Readers,
          Owners,        \* organisations, as the events name them
          Anyone,        \* the filter of a superadmin that names none
          PageSizes,     \* the sizes of page asked for
          LastInstant,
          Unread         \* a reader that has no page

ASSUME AuditAssumption ==
    EventIds \subseteq Nat /\ PageSizes \subseteq Nat \ {0} /\ LastInstant \in Nat /\ Anyone \notin Owners

VARIABLES instant,
          trail,    \* the committed events
          written,  \* those each open transaction has written
          listing   \* what each reader has been answered

trailVars == <<instant, trail, written, listing>>

Events == [id : EventIds, at : 0 .. LastInstant, owner : Owners]
UsedIds == {e.id : e \in trail \cup UNION {written[t] : t \in Writers}}

-----------------------------------------------------------------------------
\* emit: in the transaction of the change, and with it.
EmitEvent(t, o) ==
    /\ \E i \in EventIds \ UsedIds :
         written' = [written EXCEPT ![t] = @ \cup {[id |-> i, at |-> instant, owner |-> o]}]
    /\ UNCHANGED <<instant, trail, listing>>

EndTransaction(t, commits) ==
    /\ written[t] # {}
    /\ trail' = IF commits THEN trail \cup written[t] ELSE trail
    /\ written' = [written EXCEPT ![t] = {}]
    /\ UNCHANGED <<instant, listing>>

Moment ==
    /\ instant < LastInstant
    /\ instant' = instant + 1
    /\ UNCHANGED <<trail, written, listing>>

-----------------------------------------------------------------------------
\* ORDER BY occurred_at DESC, id DESC.
Precedes(e, f) == e.at > f.at \/ (e.at = f.at /\ e.id > f.id)

\* (The instant of the cursor alone.)
PastInstant(e, cursor) == e.at < cursor.at

\* What comes after a cursor in that order.
PastCursor(e, cursor) == e.at < cursor.at \/ (e.at = cursor.at /\ e.id < cursor.id)

\* The organisation a caller is held to, or the one a superadmin asks for.
Matching(owner) == {e \in trail : owner = Anyone \/ e.owner = owner}

\* listEvents: one row more than the limit is read, to know whether a page follows.
PageOf(rows, limit) == {e \in rows : Cardinality({f \in rows : Precedes(f, e)}) < limit}
LastOf(page) == CHOOSE e \in page : \A f \in page : f = e \/ Precedes(f, e)

ListFirst(r, owner, limit) ==
    /\ listing[r] = Unread
    /\ LET rows == Matching(owner)
           page == PageOf(rows, limit)
       IN listing' = [listing EXCEPT ![r] =
            [owner |-> owner, page |-> page, more |-> rows # page, seen |-> {}, there |-> rows]]
    /\ UNCHANGED <<instant, trail, written>>

ListNext(r, limit) ==
    /\ listing[r] # Unread /\ listing[r].more
    /\ LET cursor == LastOf(listing[r].page)
           rows == {e \in Matching(listing[r].owner) : PastCursor(e, cursor)}
           page == PageOf(rows, limit)
       IN listing' = [listing EXCEPT ![r].page = page, ![r].more = rows # page,
                                     ![r].seen = @ \cup listing[r].page]
    /\ UNCHANGED <<instant, trail, written>>

Audit ==
    \/ \E t \in Writers, o \in Owners : EmitEvent(t, o)
    \/ \E t \in Writers, commits \in BOOLEAN : EndTransaction(t, commits)
    \/ Moment
    \/ \E r \in Readers, limit \in PageSizes :
         ListNext(r, limit) \/ \E owner \in Owners \cup {Anyone} : ListFirst(r, owner, limit)

AuditInit ==
    /\ instant = 0
    /\ trail = {}
    /\ written = [t \in Writers |-> {}]
    /\ listing = [r \in Readers |-> Unread]

AuditSpec == AuditInit /\ [][Audit]_trailVars

-----------------------------------------------------------------------------
AuditTypeOK ==
    /\ instant \in 0 .. LastInstant
    /\ trail \subseteq Events
    /\ written \in [Writers -> SUBSET Events]
    /\ \A r \in Readers : listing[r] # Unread =>
         listing[r] \in [owner : Owners \cup {Anyone}, page : SUBSET trail, more : BOOLEAN,
                         seen : SUBSET trail, there : SUBSET trail]

\* "cursor basado en (occurred_at, id) es estable" (ADR 0003): whatever commits
\* between two pages, no event is listed twice, every page follows those before
\* it, and what there was at the first page has been listed by the last.
PagesAreExact ==
    /\ AuditTypeOK
    /\ \A r \in Readers : listing[r] # Unread =>
         LET l == listing[r]
         IN /\ \A e \in l.page, f \in l.seen : Precedes(f, e)
            /\ l.seen \cup l.page \subseteq Matching(l.owner)
            /\ ~l.more => l.there \subseteq l.seen \cup l.page
=============================================================================
