----------------------------- MODULE DonorOutbox -----------------------------
(***************************************************************************)
(* The company memory outbox and its publisher.  A row names a source: a    *)
(* received mail, or a sent draft.  Every interval the server starts a tick *)
(* that lists the pending rows with the content of their sources and then   *)
(* publishes them one after the other, each in two calls of sb-company:     *)
(* register the content, then receive the candidate.  A call is killed      *)
(* after ten seconds, so a tick can last longer than the interval and the   *)
(* next one then works beside it.                                           *)
(*                                                                         *)
(* Second Brain is external.  As docs/core5/COMPANY-MEMORY-DONOR.md has it, *)
(* it checks a candidate against the content registered last for its source *)
(* and never replaces a candidate by one with other content.                *)
(***************************************************************************)
EXTENDS Naturals, FiniteSets

CONSTANTS Event,    \* outbox rows: one per workspace, kind and source
          Mail,     \* those whose source is a received mail
          Tick,     \* bound: the ticks that may run at the same time
          MaxVer,   \* bound: how often the content of a mail changes
          NoEvent   \* a tick between two rows

ASSUME DonorAssumption ==
    /\ Mail \subseteq Event
    /\ NoEvent \notin Event
    /\ MaxVer \in Nat \ {0}

(* 0: stored without text; 1..MaxVer: a text; the last one: deleted         *)
Gone == MaxVer + 1
Version == 0..Gone
Readable(v) == v \in 1..MaxVer

VARIABLES source,      \* what resolveMailCompanyMemorySource finds
          status,      \* mail_company_memory_outbox.status
          tick,        \* the publisher's ticks
          registered,  \* Second Brain: the content registered for a source
          memory       \* Second Brain: the content of the candidate, or 0

vars == <<source, status, tick, registered, memory>>

Stage == {"register", "receive", "accepted"}
Run == [todo : SUBSET Event, seen : [Event -> 0..MaxVer],
        at : Event \cup {NoEvent}, stage : Stage]

TypeOK ==
    /\ source \in [Event -> Version]
    /\ status \in [Event -> {"none", "PENDING", "EMITTED", "SKIPPED"}]
    /\ tick \in [Tick -> Run]
    /\ registered \in [Event -> Version]
    /\ memory \in [Event -> Version]

(* a tick is over when it has nothing left to do                             *)
Idle == [todo |-> {}, seen |-> [e \in Event |-> 0],
         at |-> NoEvent, stage |-> "register"]

Init ==
    /\ source \in [Event -> {0, 1}]
    /\ \A e \in Event \ Mail : source[e] = 1
    /\ status = [e \in Event |-> "none"]
    /\ tick = [t \in Tick |-> Idle]
    /\ registered = [e \in Event |-> 0]
    /\ memory = [e \in Event |-> 0]

-----------------------------------------------------------------------------
(* The mail store: a page of the sync changes or removes a mail.  The row   *)
(* of a draft that was sent never changes                                   *)
BecomesSource(e, v) ==
    /\ source' = [source EXCEPT ![e] = v]
    /\ UNCHANGED <<status, tick, registered, memory>>

Edited(e) == e \in Mail /\ source[e] < MaxVer /\ BecomesSource(e, source[e] + 1)
Removed(e) == e \in Mail /\ source[e] # Gone /\ BecomesSource(e, Gone)

(* Intake, or the transaction that records a mail as sent.  A source that   *)
(* has a row gets no other one, whatever became of it                       *)
Enqueue(e) ==
    /\ source[e] # Gone
    /\ status[e] = "none"
    /\ status' = [status EXCEPT ![e] = "PENDING"]
    /\ UNCHANGED <<source, tick, registered, memory>>

-----------------------------------------------------------------------------
(* Rows change only while they are pending                                  *)
StillPending(e) == status[e] = "PENDING"

Settle(e, new) ==
    status' = IF StillPending(e) THEN [status EXCEPT ![e] = new] ELSE status

-----------------------------------------------------------------------------
(* A tick *)
BadListed == {e \in Event : status[e] = "PENDING" /\ registered[e] = 0}
Listed == {e \in Event : status[e] = "PENDING"}

(* listPending: the rows and their sources as of now                        *)
StartTick(t) ==
    /\ tick[t].todo = {}
    /\ tick' = [tick EXCEPT ![t] =
         [todo |-> Listed,
          seen |-> [e \in Event |-> IF e \in Listed /\ Readable(source[e])
                                    THEN source[e] ELSE 0],
          at |-> NoEvent, stage |-> "register"]]
    /\ UNCHANGED <<source, status, registered, memory>>

Due(t, e) == tick[t].at = NoEvent /\ e \in tick[t].todo
Calling(t, e, stage) == tick[t].at = e /\ tick[t].stage = stage

Becomes(t, run) == tick' = [tick EXCEPT ![t] = run]

(* tick t is done with row e                                                *)
Done(t, e) ==
    Becomes(t, [todo |-> tick[t].todo \ {e},
                seen |-> [tick[t].seen EXCEPT ![e] = 0],
                at |-> NoEvent, stage |-> "register"])

(* COMPANY_SOURCE_REQUIRED, the one terminal code                           *)
Skip(t, e) ==
    /\ Due(t, e) /\ tick[t].seen[e] = 0
    /\ Settle(e, "SKIPPED")
    /\ Done(t, e)
    /\ UNCHANGED <<source, registered, memory>>

(* the row is of another workspace than the authority file, or the request   *)
(* cannot be built                                                          *)
Reject(t, e) ==
    /\ Due(t, e)
    /\ Done(t, e)
    /\ UNCHANGED <<source, status, registered, memory>>

Call(t, e) ==
    /\ Due(t, e) /\ tick[t].seen[e] # 0
    /\ Becomes(t, [tick[t] EXCEPT !.at = e, !.stage = "register"])
    /\ UNCHANGED <<source, status, registered, memory>>

Registers(t, e) ==
    /\ Calling(t, e, "register")
    /\ registered' = [registered EXCEPT ![e] = tick[t].seen[e]]
    /\ Becomes(t, [tick[t] EXCEPT !.stage = "receive"])
    /\ UNCHANGED <<source, status, memory>>

Receives(t, e) ==
    /\ Calling(t, e, "receive")
    /\ registered[e] = tick[t].seen[e]
    /\ memory[e] \in {0, tick[t].seen[e]}
    /\ memory' = [memory EXCEPT ![e] = tick[t].seen[e]]
    /\ Becomes(t, [tick[t] EXCEPT !.stage = "accepted"])
    /\ UNCHANGED <<source, status, registered>>

BadAcknowledged(t, e) == Calling(t, e, "accepted") \/ Calling(t, e, "receive")

(* exit code 0 and a receipt that matches the request                       *)
Acknowledged(t, e) == Calling(t, e, "accepted")

Emit(t, e) ==
    /\ Acknowledged(t, e)
    /\ Settle(e, "EMITTED")
    /\ Done(t, e)
    /\ UNCHANGED <<source, registered, memory>>


(* a failure other than a missing source leaves the row pending             *)
Undelivered(e) == status' = status

(* a call fails, is killed, or its answer is not the receipt expected: also  *)
(* after Second Brain did what was asked                                    *)
CallFails(t, e) ==
    /\ tick[t].at = e
    /\ Undelivered(e)
    /\ Done(t, e)
    /\ UNCHANGED <<source, registered, memory>>

(* the service stops with its child processes                               *)
Restart ==
    /\ \E t \in Tick : tick[t].todo # {}
    /\ tick' = [t \in Tick |-> Idle]
    /\ UNCHANGED <<source, status, registered, memory>>

-----------------------------------------------------------------------------
RowStep(t, e) ==
    \/ Skip(t, e) \/ Reject(t, e) \/ Call(t, e)
    \/ Registers(t, e) \/ Receives(t, e)
    \/ Emit(t, e) \/ CallFails(t, e)

TickStep(t) == \E e \in Event : RowStep(t, e)

Next ==
    \/ \E e \in Event : Edited(e) \/ Removed(e) \/ Enqueue(e)
    \/ \E t \in Tick : StartTick(t) \/ TickStep(t)
    \/ Restart

Spec == Init /\ [][Next]_vars

(* The interval goes on, every call ends within its deadline, a listed row   *)
(* gets its turn in spite of restarts, and Second Brain does not turn the   *)
(* same row down for ever                                                   *)
FairSpec ==
    /\ Spec
    /\ WF_vars(\E t \in Tick : StartTick(t))
    /\ \A t \in Tick : WF_vars(TickStep(t))
    /\ \A e \in Event :
         /\ SF_vars(\E t \in Tick : Skip(t, e) \/ Call(t, e))
         /\ SF_vars(\E t \in Tick : Registers(t, e))
         /\ SF_vars(\E t \in Tick : Receives(t, e))
         /\ SF_vars(\E t \in Tick : Emit(t, e))

-----------------------------------------------------------------------------
(* A row is EMITTED only when Second Brain has its candidate, whatever was   *)
(* killed, answered late or done by two ticks (publishOne).                 *)
EmittedWasReceived == \A e \in Event : status[e] = "EMITTED" => memory[e] # 0

(* A settled row stays settled: a tick that listed it before another one     *)
(* settled it neither skips what was emitted nor emits what was skipped.    *)
TerminalForGood ==
    [][\A e \in Event : status[e] \in {"EMITTED", "SKIPPED"} => status'[e] = status[e]]_vars

(* The receipt of a sent draft is never dropped: only a missing source is   *)
(* terminal, and a sent draft cannot lose its own.                          *)
SentIsNeverSkipped == \A e \in Event \ Mail : status[e] # "SKIPPED"

(* Second Brain holds an earlier text of a mail that was edited before its   *)
(* receipt came back                                                        *)
Outdated(e) == memory[e] # 0 /\ Readable(source[e]) /\ memory[e] # source[e]

(* Every pending row is emitted or skipped in the end, unless Second Brain   *)
(* holds an earlier text of the mail and can take no other.                 *)
PendingIsSettled ==
    \A e \in Event : status[e] = "PENDING" ~> (status[e] # "PENDING" \/ Outdated(e))

(* "Replay of an already-emitted row is a no-op": no call is made for it    *)
(* (docs/core5/COMPANY-MEMORY-DONOR.md).                                    *)
ReplayIsNoOp ==
    [][\A t \in Tick, e \in Event : Calling(t, e, "register")' => 
          Calling(t, e, "register") \/ status[e] # "EMITTED"]_vars
=============================================================================
