------------------------------ MODULE Narrate ------------------------------
(***************************************************************************)
(* The narrate request past its cache (backend/assembly/handler.py) and    *)
(* the gateway under it (backend/shared/llm_gateway.py, app_profile.py):   *)
(* check the day's spend, resolve the route and the AI switch, run the     *)
(* chain of models under one deadline, write a ledger row per attempt.     *)
(*                                                                         *)
(* Several Lambda containers share the ledger and the app profile.  What a *)
(* container remembers between requests (the profile it read, a hold after *)
(* a lost ledger row, its circuits) is lost when it is recycled.  A billed *)
(* attempt costs one unit.  Times are counted in ticks.                    *)
(***************************************************************************)
EXTENDS LlmBreaker, Sequences, SequencesExt

CONSTANTS
  Containers,
  Settings,      \* the scenarios a behaviour may be in, see SettingsAssumption
  TaskRole,      \* connections called with the Lambda's own role
  Deadline,      \* route_deadline_s
  MinAttempt,    \* LLM_ROUTE_DEADLINE_MIN_ATTEMPT_S
  Cap,           \* TP_DAILY_SPEND_CAP_USD
  Hold,          \* SPEND_UNREADABLE_HOLD_SECONDS
  ProfileTTL,    \* CACHE_TTL_SECONDS
  ProfileRetry,  \* FAILURE_TTL_SECONDS
  MaxLost        \* bound: billed units whose ledger row is lost in a day

(* serving: the containers in use; chain: the route, for each model its       *)
(* deployments in order; failures: what an attempt may end with beside a      *)
(* text; shut: deployments whose circuit CIS may have open; faulty: database  *)
(* statements may fail and containers be recycled; switched: the AI switch is *)
(* used.  The gateway knows a model's deployments by their connections.       *)
ASSUME SettingsAssumption ==
  \A s \in Settings :
    /\ s.serving \subseteq Containers /\ IsFiniteSet(s.serving)
    /\ s.chain \in Seq(Seq(Deployments))
    /\ \A m \in DOMAIN s.chain : \A i, j \in DOMAIN s.chain[m] :
         s.chain[m][i].connection = s.chain[m][j].connection => i = j
    /\ s.failures \subseteq Classes \cup {"request", "truncated"}
    /\ s.shut \subseteq Deployments
    /\ {s.faulty, s.switched} \subseteq BOOLEAN

ASSUME TimesAssumption ==
  /\ {Cap, Hold, ProfileTTL, ProfileRetry, MinAttempt} \subseteq Nat \ {0}
  /\ Deadline \in Nat /\ MinAttempt <= Deadline
  /\ MaxLost \in Nat

VARIABLES
  setting,
  ledger,  \* what catalog.v_llm_app_spend_today_v1 sums to
  billed,  \* history: units the provider billed today, and those written today
  lost,    \* history: units whose row was lost today
  ai,      \* ai_enabled of the app profile
  offFor,  \* history: for how long AI has been off
  memory,  \* what each container remembers
  at       \* the request each container serves

vars == <<setting, ledger, billed, lost, ai, offFor, memory, at>>
world == <<setting, ai, offFor>>
spend == <<ledger, billed, lost>>

NoProfile == [known |-> "none", age |-> 0, retry |-> 0]
Fresh == [table |-> NewTable, hold |-> 0, profile |-> NoProfile, sinceLoss |-> Hold]
Idle == [pc |-> "idle", position |-> 0, items |-> {}, left |-> 0, timeout |-> 0, timer |-> 0, rows |-> <<>>]

Init ==
  /\ setting \in Settings
  /\ ledger = 0 /\ billed = 0 /\ lost = 0
  /\ ai = TRUE /\ offFor = 0
  /\ memory = [c \in Containers |-> Fresh]
  /\ at = [c \in Containers |-> Idle]

Goto(c, label) == at' = [at EXCEPT ![c].pc = label]
Leave(c) == at' = [at EXCEPT ![c] = Idle]

(* The chain is over: what is left of the request are the rows to write. *)
Finish(c, rows) == at' = [at EXCEPT ![c] = [Idle EXCEPT !.pc = "record", !.rows = rows]]

-----------------------------------------------------------------------------
(* The app profile: a read is kept for ProfileTTL; after a failed read AI is  *)
(* on, unread, for ProfileRetry.                                              *)

Reads ==
  {[known |-> IF ai THEN "on" ELSE "off", age |-> 0, retry |-> 0]} \cup
  (IF setting.faulty THEN {[NoProfile EXCEPT !.retry = ProfileRetry]} ELSE {})

(* Mutant: a use of the cached profile keeps it for longer. *)
Mut_Sliding(p) ==
  IF p.known # "none" THEN {[p EXCEPT !.age = 0]} ELSE IF p.retry > 0 THEN {p} ELSE Reads

Current(p) == IF p.known # "none" \/ p.retry > 0 THEN {p} ELSE Reads

AiEnabled(p) == p.known # "off"

-----------------------------------------------------------------------------
(* A request. *)

Ask(c) ==
  /\ c \in setting.serving /\ at[c].pc = "idle"
  /\ Goto(c, "budget")
  /\ UNCHANGED <<world, spend, memory>>

(* Mutant: the cap itself may still be spent. *)
Mut_UpToCap == ledger > Cap

Exhausted == ledger >= Cap

(* budget_status: over the cap, after a lost row, or with a spend that cannot *)
(* be read, the answer is the basic text and no model is called.              *)
Budget(c) ==
  /\ at[c].pc = "budget"
  /\ \E p \in Current(memory[c].profile) : memory' = [memory EXCEPT ![c].profile = p]
  /\ \/ (setting.faulty \/ memory[c].hold > 0 \/ Exhausted) /\ Leave(c)
     \/ memory[c].hold = 0 /\ ~Exhausted /\ Goto(c, "resolve")
  /\ UNCHANGED <<world, spend>>

(* load_route and refuse_if_ai_off: an unreadable route ends the request, AI  *)
(* off too, after a row that says so.                                         *)
Resolve(c) ==
  /\ at[c].pc = "resolve"
  /\ \/ setting.faulty /\ Leave(c) /\ UNCHANGED memory
     \/ \E p \in Current(memory[c].profile) :
          /\ memory' = [memory EXCEPT ![c].profile = p]
          /\ IF AiEnabled(p) THEN Goto(c, "limit")
             ELSE Finish(c, <<0>>)
  /\ UNCHANGED <<world, spend>>

(* ratelimit.hit: a session over its limit is answered 429; a counter that    *)
(* cannot be written lets it pass.                                            *)
Limit(c) ==
  /\ at[c].pc = "limit"
  /\ \/ Leave(c)
     \/ at' = [at EXCEPT ![c].pc = "model", ![c].left = Deadline]
  /\ UNCHANGED <<world, spend, memory>>

-----------------------------------------------------------------------------
(* generate_text: each model of the route, each of its deployments.           *)

(* deployment_plan: which of the model's deployments are to be tried; `cis`   *)
(* are those whose circuit the route says is open.                            *)
Plan(c, candidates, cis) ==
  {i \in DOMAIN candidates : candidates[i] \notin cis /\ ~Shut(memory[c].table, candidates[i])}

(* The first of them that is left. *)
Deployment(c) == setting.chain[at[c].position][Min(at[c].items)]

(* A model all of whose deployments are behind circuits gets a row of 0 USD.  *)
NextModel(c) ==
  LET next == at[c].position + 1
  IN /\ at[c].pc = "model"
     /\ IF next > Len(setting.chain) THEN Finish(c, at[c].rows)
        ELSE \E cis \in SUBSET setting.shut :
               LET items == Plan(c, setting.chain[next], cis)
               IN at' = [at EXCEPT ![c].position = next, ![c].items = items,
                                   ![c].pc = IF items = {} THEN "model" ELSE "attempt",
                                   ![c].rows = IF items = {} THEN Append(@, 0) ELSE @]
     /\ UNCHANGED <<world, spend, memory>>

(* Mutant: the time left is not looked at before an attempt. *)
Mut_Always(c) == TRUE

TimeLeft(c) == at[c].left >= MinAttempt

(* Each client of an attempt may take the time that is left at its start: the *)
(* one that assumes the satellite's role, and the one that calls the model.   *)
Attempt(c) ==
  LET left == at[c].left
  IN /\ at[c].pc = "attempt"
     /\ IF ~TimeLeft(c)
        THEN Finish(c, Append(at[c].rows, 0))
        ELSE at' = [at EXCEPT ![c].pc = IF Deployment(c).connection \in TaskRole THEN "invoke" ELSE "assume",
                              ![c].timeout = left, ![c].timer = left]
     /\ UNCHANGED <<world, spend, memory>>

Assumed(c) ==
  /\ at[c].pc = "assume"
  /\ at' = [at EXCEPT ![c].pc = "invoke", ![c].timer = at[c].timeout]
  /\ UNCHANGED <<world, spend, memory>>

(* The attempt is over without a text: on to the model's next deployment, or  *)
(* to the next model.                                                         *)
Onward(c, cost) ==
  LET items == at[c].items \ {Min(at[c].items)}
  IN at' = [at EXCEPT ![c].items = items, ![c].pc = IF items = {} THEN "model" ELSE "attempt",
                      ![c].rows = Append(@, cost), ![c].timeout = 0, ![c].timer = 0]

Fails(c, outcome) ==
  /\ at[c].pc \in {"assume", "invoke"}
  /\ outcome \in setting.failures \ {"truncated"}
  /\ memory' = [memory EXCEPT ![c].table = RecordFailure(@, Deployment(c), outcome)]
  /\ Onward(c, 0)
  /\ UNCHANGED <<world, spend>>

(* Mutant: a reply that was cut costs nothing. *)
Mut_FreeCut == 0

CutCost == 1

(* A reply cut at its token limit is billed, and is an answer to the breaker. *)
Truncated(c) ==
  /\ at[c].pc = "invoke" /\ "truncated" \in setting.failures
  /\ memory' = [memory EXCEPT ![c].table = RecordSuccess(@, Deployment(c))]
  /\ billed' = billed + 1
  /\ Onward(c, CutCost)
  /\ UNCHANGED <<world, ledger, lost>>

Text(c) ==
  /\ at[c].pc = "invoke"
  /\ memory' = [memory EXCEPT ![c].table = RecordSuccess(@, Deployment(c))]
  /\ billed' = billed + 1
  /\ Finish(c, Append(at[c].rows, 1))
  /\ UNCHANGED <<world, ledger, lost>>

-----------------------------------------------------------------------------
(* record, for each attempt of the request. *)

(* Mutant: a row that is written ends the hold an earlier one began. *)
Mut_Cleared(c) == [memory EXCEPT ![c].hold = 0]

AfterWrite(c) == memory

Write(c) ==
  /\ at[c].pc = "record" /\ at[c].rows # <<>>
  /\ ledger' = ledger + Head(at[c].rows)
  /\ memory' = AfterWrite(c)
  /\ at' = [at EXCEPT ![c].rows = Tail(@)]
  /\ UNCHANGED <<world, billed, lost>>

Lose(c) ==
  /\ at[c].pc = "record" /\ at[c].rows # <<>>
  /\ setting.faulty /\ lost + Head(at[c].rows) <= MaxLost
  /\ lost' = lost + Head(at[c].rows)
  /\ memory' = [memory EXCEPT ![c].hold = Hold, ![c].sinceLoss = 0]
  /\ at' = [at EXCEPT ![c].rows = Tail(@)]
  /\ UNCHANGED <<world, ledger, billed>>

Respond(c) ==
  /\ at[c].pc = "record" /\ at[c].rows = <<>>
  /\ Leave(c)
  /\ UNCHANGED <<world, spend, memory>>

-----------------------------------------------------------------------------
(* Around the containers. *)

(* The rows a request has yet to write for units that were billed. *)
Unwritten(c) == {i \in DOMAIN at[c].rows : at[c].rows[i] = 1}

Pending == UNION {{c} \X Unwritten(c) : c \in Containers}

(* A container is recycled; the call it had under way may be billed.          *)
Recycle(c) ==
  /\ c \in setting.serving /\ setting.faulty
  /\ \E late \in 0..(IF at[c].pc = "invoke" THEN 1 ELSE 0) :
       /\ lost' = lost + Cardinality(Unwritten(c)) + late
       /\ lost' <= MaxLost
       /\ billed' = billed + late
  /\ memory' = [memory EXCEPT ![c] = Fresh]
  /\ Leave(c)
  /\ UNCHANGED <<world, ledger>>

Less(n) == IF n = 0 THEN 0 ELSE n - 1

(* A cached profile that is too old is as good as none. *)
Older(p) ==
  LET kept == p.known # "none" /\ p.age + 1 < ProfileTTL
  IN [known |-> IF kept THEN p.known ELSE "none", age |-> IF kept THEN p.age + 1 ELSE 0, retry |-> Less(p.retry)]

Aged(m) ==
  [table |-> Elapsed(m.table), hold |-> Less(m.hold), sinceLoss |-> Smaller(m.sinceLoss + 1, Hold),
   profile |-> Older(m.profile)]

(* Time passes.  What a request does in memory takes none, and a client does  *)
(* not outlast its timeout.                                                   *)
Tick ==
  /\ \A c \in Containers :
       /\ at[c].pc \notin {"model", "attempt"}
       /\ at[c].pc \in {"assume", "invoke"} => at[c].timer > 0
  /\ at' = [c \in Containers |->
              IF at[c].pc \in {"assume", "invoke"}
              THEN [at[c] EXCEPT !.left = @ - 1, !.timer = @ - 1] ELSE at[c]]
  /\ memory' = [c \in Containers |-> Aged(memory[c])]
  /\ offFor' = IF ai THEN 0 ELSE Smaller(offFor + 1, ProfileTTL)
  /\ UNCHANGED <<setting, spend, ai>>

(* An admin uses the AI switch. *)
Switch ==
  /\ setting.switched
  /\ ai' = ~ai /\ offFor' = 0
  /\ UNCHANGED <<setting, spend, memory, at>>

(* The spend view begins at zero; rows still to be written count today.       *)
NewDay ==
  /\ ledger' = 0 /\ lost' = 0
  /\ billed' = Cardinality(Pending)
  /\ UNCHANGED <<world, memory, at>>

Generate(c) ==
  \/ NextModel(c) \/ Attempt(c) \/ Assumed(c) \/ Truncated(c) \/ Text(c)
  \/ \E outcome \in Classes \cup {"request"} : Fails(c, outcome)

Serve(c) == Budget(c) \/ Resolve(c) \/ Limit(c) \/ Generate(c) \/ Write(c) \/ Lose(c) \/ Respond(c)

Next ==
  \/ \E c \in Containers : Ask(c) \/ Serve(c) \/ Recycle(c)
  \/ Tick \/ Switch \/ NewDay

Spec == Init /\ [][Next]_vars

(* A container that is asked answers, is asked again, and is sometimes within *)
(* the session's limit; time and days pass.                                   *)
FairSpec ==
  /\ Spec
  /\ SF_vars(Tick) /\ WF_vars(NewDay)
  /\ \A c \in Containers :
       /\ WF_vars(Ask(c)) /\ WF_vars(Serve(c))
       /\ SF_vars(Limit(c) /\ at'[c].pc = "model")

-----------------------------------------------------------------------------
Labels == {"idle", "budget", "resolve", "limit", "model", "attempt", "assume", "invoke", "record"}

(* What the books, the containers and their requests hold. *)
TypeOK ==
  /\ setting \in Settings /\ ai \in BOOLEAN /\ offFor \in 0..ProfileTTL
  /\ {ledger, billed} \subseteq Nat /\ lost \in 0..MaxLost
  /\ \A c \in Containers :
       /\ memory[c].table \in [Deployments -> Healths]
       /\ memory[c].hold \in 0..Hold /\ memory[c].sinceLoss \in 0..Hold
       /\ memory[c].profile \in [known : {"none", "on", "off"}, age : 0..ProfileTTL - 1, retry : 0..ProfileRetry]
       /\ at[c].pc \in Labels
       /\ at[c].left \in -Deadline..Deadline /\ {at[c].timeout, at[c].timer} \subseteq 0..Deadline
       /\ at[c].position \in 0..Len(setting.chain)
       /\ at[c].items \subseteq IF at[c].position = 0 THEN {} ELSE DOMAIN setting.chain[at[c].position]
       /\ at[c].rows \in Seq({0, 1})

(* A unit the provider billed today, for a text or for a reply that was cut,  *)
(* is in the ledger, among the rows a request has yet to write, or lost with  *)
(* a statement or a container: no way out of a request forgets one.           *)
BooksBalance == billed = ledger + lost + Cardinality(Pending)

(* Every deployment of every model. *)
Chances == UNION {{m} \X DOMAIN setting.chain[m] : m \in DOMAIN setting.chain}

(* The daily cap is checked before a request and spent after it: containers   *)
(* that pass the same check overrun it by no more than what each of them can  *)
(* spend in one request, cut replies included, and by what was lost.          *)
WithinTheCap == billed <= Cap - 1 + lost + Cardinality(setting.serving) * Cardinality(Chances)

(* The container calls a model. *)
Begins(c) == at[c].pc = "attempt" /\ at'[c].pc \in {"assume", "invoke"}

(* After a ledger row was lost, were it one of 0 USD and others written after *)
(* it, the container calls no model for the hold: its spend undercounts.      *)
HeldAfterLoss == [][\A c \in Containers : Begins(c) => memory[c].sinceLoss >= Hold]_vars

(* AI switched off reaches every container within the profile's lifetime,     *)
(* save one that could not read it, however busy the container is.            *)
SwitchReaches ==
  [][\A c \in Containers : at[c].pc = "resolve" /\ at'[c].pc = "limit" =>
       ai \/ offFor < ProfileTTL \/ memory'[c].profile.retry > 0]_vars

(* A failing deployment is left alone for the open period of its last error,  *)
(* and so is every model of a connection whose account was refused, unless    *)
(* the connection answered since.                                             *)
LeftAlone ==
  [][\A c \in Containers : Begins(c) =>
       LET table == memory[c].table
           d == Deployment(c)
           Rested(e) == table[e].age >= OpenFor[table[e].class]
       IN /\ table[d].class # "none" /\ table[d].failures >= Threshold[table[d].class] => Rested(d)
          /\ \A e \in Neighbours(d) : table[e].class \in SoloClasses /\ table[e].fresh => Rested(e)]_vars

(* The route's deadline is overrun by one attempt at most, a satellite's,     *)
(* and by no more than the time that attempt was given.                       *)
OverrunIsOneAttempt ==
  \A c \in Containers : at[c].pc \in {"assume", "invoke"} /\ at[c].left < 0 =>
    /\ at[c].pc = "invoke" /\ Deployment(c).connection \notin TaskRole
    /\ -at[c].left <= at[c].timeout

(* "one slow call cannot outlast the request's budget". *)
WithinTheDeadline == \A c \in Containers : at[c].left >= 0

(* "A half-open circuit lets the next call through": one that stays half-open *)
(* is tried, or is not needed, because requests are answered with a text.     *)
HalfOpenIsProbed ==
  \A c \in Containers, d \in Deployments :
    []<>(StateOf(memory[c].table[d]) # "half_open" \/ (at[c].rows # <<>> /\ Last(at[c].rows) = 1))
=============================================================================
