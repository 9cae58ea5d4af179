----------------------------- MODULE AiCopilot -----------------------------
(***************************************************************************)
(* The assistant of one organisation: the monthly quota is checked before  *)
(* the answer, what the answer cost is counted after it, and an answer is  *)
(* reused for a day.  A prompt stands for its hash.  What an answer says   *)
(* is whether it begins with the mark of what is off topic, and whether an *)
(* object can be read in it, which may follow that mark: only an analysis  *)
(* needs one.                                                              *)
(***************************************************************************)
EXTENDS Naturals, FiniteSets, FiniteSetsExt, Functions

CONSTANTS Asks,        \* requests being served
          Prompts,     \* hashes of prompts
          OperationOf, \* the operation of a prompt, which its hash depends on
          Costs,       \* tokens an answer may cost
          LastMonth,
          Nothing

ASSUME CopilotAssumption ==
    /\ Costs \subseteq Nat \ {0} /\ Costs # {} /\ IsFiniteSet(Costs) /\ LastMonth \in Nat
    /\ IsFiniteSet(Asks) /\ Nothing \notin [enabled : BOOLEAN, quota : Nat]
    /\ Nothing \notin [onTopic : BOOLEAN, readable : BOOLEAN]
    /\ OperationOf \in [Prompts -> {"draft", "validate"}]

VARIABLES settings,  \* the row of the organisation, or Nothing before its first use
          month,
          used,      \* usage_counter: tokens by month and operation
          reusable,  \* prompt_log: the last answer to a prompt within a day
          ask,       \* the requests
          billed     \* tokens the provider has answered with so far

copilotVars == <<settings, month, used, reusable, ask, billed>>

Months == 0 .. LastMonth
Answers == [onTopic : BOOLEAN, readable : BOOLEAN]
NoAsk == [stage |-> "none", prompt |-> Nothing, answer |-> Nothing, cost |-> 0, fresh |-> FALSE]
Default == [enabled |-> TRUE, quota |-> 2]   \* 500000 tokens

UsedIn(m) == used[m]["draft"] + used[m]["validate"]

To(r, stage) == ask' = [ask EXCEPT ![r].stage = stage]

\* (One more than the quota is still within it.)
OverQuotaByMore(s) == s.quota # 0 /\ UsedIn(month) > s.quota

\* assertWithinQuota: a quota of zero has no limit.
OverQuota(s) == s.quota # 0 /\ UsedIn(month) >= s.quota

-----------------------------------------------------------------------------
BeginAsk(r, p) ==
    /\ ask[r].stage = "none"
    /\ ask' = [ask EXCEPT ![r] = [NoAsk EXCEPT !.prompt = p,
                 !.stage = IF settings = Nothing THEN "settings" ELSE "quota"]]
    /\ UNCHANGED <<settings, month, used, reusable, billed>>

\* The first use creates the settings; the key refuses another first use.
CreateSettings(r) ==
    /\ ask[r].stage = "settings"
    /\ IF settings = Nothing THEN settings' = Default /\ To(r, "quota")
       ELSE UNCHANGED settings /\ To(r, "failed")
    /\ UNCHANGED <<month, used, reusable, billed>>

Gate(r) ==
    /\ ask[r].stage = "quota"
    /\ To(r, IF ~settings.enabled \/ OverQuota(settings) THEN "refused" ELSE "lookup")
    /\ UNCHANGED <<settings, month, used, reusable, billed>>

\* A draft is reused as it is, an analysis if an object can be read in it: what
\* is off topic was logged before it was refused, and is not refused again.
Usable(p) ==
    /\ reusable[p] # Nothing
    /\ OperationOf[p] = "validate" => reusable[p].readable

Lookup(r) ==
    /\ ask[r].stage = "lookup"
    /\ LET p == ask[r].prompt
       IN IF Usable(p)
          THEN ask' = [ask EXCEPT ![r] = [@ EXCEPT !.stage = "count", !.answer = reusable[p],
                                                   !.cost = 0]]
          ELSE To(r, "call")
    /\ UNCHANGED <<settings, month, used, reusable, billed>>

\* The provider answers, and the answer is logged for reuse unless that fails.
Answer(r, a, cost) ==
    /\ ask[r].stage = "call"
    /\ ask' = [ask EXCEPT ![r] = [@ EXCEPT !.stage = "count", !.answer = a, !.cost = cost,
                                           !.fresh = TRUE]]
    /\ \E kept \in {a, reusable[ask[r].prompt]} :
         reusable' = [reusable EXCEPT ![ask[r].prompt] = kept]
    /\ billed' = billed + cost
    /\ UNCHANGED <<settings, month, used>>

\* A call that fails is logged, but neither reused nor counted.
FailCall(r) ==
    /\ ask[r].stage = "call"
    /\ To(r, "failed")
    /\ UNCHANGED <<settings, month, used, reusable, billed>>

\* What is refused of an answer that the provider has just given.
Unfit(p, a) == ~a.onTopic \/ (OperationOf[p] = "validate" /\ ~a.readable)

\* incrementUsage adds to the row of the month it runs in; only then is a fresh
\* answer refused.
Count(r) ==
    /\ ask[r].stage = "count"
    /\ used' = [used EXCEPT ![month][OperationOf[ask[r].prompt]] = @ + ask[r].cost]
    /\ To(r, IF ask[r].fresh /\ Unfit(ask[r].prompt, ask[r].answer) THEN "refused" ELSE "answered")
    /\ UNCHANGED <<settings, month, reusable, billed>>

Leave(r) ==
    /\ ask[r].stage \in {"answered", "refused", "failed"}
    /\ ask' = [ask EXCEPT ![r] = NoAsk]
    /\ UNCHANGED <<settings, month, used, reusable, billed>>

\* An answer is a day old.
Forget(p) ==
    /\ reusable[p] # Nothing
    /\ reusable' = [reusable EXCEPT ![p] = Nothing]
    /\ UNCHANGED <<settings, month, used, ask, billed>>

NextMonth ==
    /\ month < LastMonth
    /\ month' = month + 1
    /\ UNCHANGED <<settings, used, reusable, ask, billed>>

Assist ==
    \/ \E r \in Asks :
         \/ \E p \in Prompts : BeginAsk(r, p)
         \/ CreateSettings(r) \/ Gate(r) \/ Lookup(r)
         \/ \E a \in Answers, c \in Costs : Answer(r, a, c)
         \/ FailCall(r) \/ Count(r) \/ Leave(r)
    \/ \E p \in Prompts : Forget(p)
    \/ NextMonth

CopilotInit(row) ==
    /\ settings = row
    /\ month = 0
    /\ used = [m \in Months |-> [o \in {"draft", "validate"} |-> 0]]
    /\ reusable = [p \in Prompts |-> Nothing]
    /\ ask = [r \in Asks |-> NoAsk]
    /\ billed = 0

CopilotSpec ==
    /\ \E row \in {Nothing} \cup [enabled : BOOLEAN, quota : Nat] : CopilotInit(row)
    /\ [][Assist]_copilotVars

-----------------------------------------------------------------------------
CopilotTypeOK ==
    /\ settings \in {Nothing} \cup [enabled : BOOLEAN, quota : Nat]
    /\ month \in Months
    /\ used \in [Months -> [{"draft", "validate"} -> Nat]]
    /\ reusable \in [Prompts -> {Nothing} \cup Answers]
    /\ billed \in Nat
    /\ \A r \in Asks :
         /\ ask[r].stage \in {"none", "settings", "quota", "lookup", "call", "count",
                              "answered", "refused", "failed"}
         /\ ask[r].prompt \in Prompts \cup {Nothing}
         /\ ask[r].cost \in Costs \cup {0}

\* The quota is checked before and counted after, so it can be passed, but by
\* no more than one answer for each request there can be at once: from then on
\* the month is closed (quota.service.ts, ai.service.ts).
QuotaPassedOnce ==
    settings # Nothing =>
        \/ settings.quota = 0
        \/ UsedIn(month) < settings.quota + Max(Costs) * Cardinality(Asks)

\* Every token the provider answered with is counted, in one month and once, or
\* is about to be: failed calls and reused answers add nothing.
TokensCountedOnce ==
    billed = SumFunctionOnSet([m \in Months |-> UsedIn(m)], Months)
             + SumFunctionOnSet([r \in Asks |-> IF ask[r].stage = "count" THEN ask[r].cost ELSE 0],
                                Asks)

\* What is served as an analysis can be read, though what cannot be is in the
\* log as a success too; and what is off topic is served to nobody it was written
\* for, only to who asks again within a day (ai.service.ts:88 and 199).
ServedAsWritten ==
    \A r \in Asks : ask[r].stage = "answered" =>
        /\ OperationOf[ask[r].prompt] = "validate" => ask[r].answer.readable
        /\ ask[r].answer.onTopic \/ ~ask[r].fresh

\* Of any requests at once, what is let through, what is counted and what is
\* answered agree.
AssistantIsExact == CopilotTypeOK /\ QuotaPassedOnce /\ TokensCountedOnce /\ ServedAsWritten
=============================================================================
