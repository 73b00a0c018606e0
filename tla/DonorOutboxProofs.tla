-------------------------- MODULE DonorOutboxProofs --------------------------
(***************************************************************************)
(* Proofs about the company memory outbox, for any number of rows, ticks    *)
(* and edits.                                                               *)
(*                                                                         *)
(* That an emitted row was received is not inductive: between the answer of *)
(* Second Brain and the update of the row the tick alone knows.  AnswersHold *)
(* says that what a tick takes for an answer is one.  That a sent draft is  *)
(* never skipped rests on KeptIsSeen: its source is readable when the row   *)
(* is listed, and what a tick has listed does not change.                   *)
(***************************************************************************)
EXTENDS DonorOutbox, TLAPS

(* a call is about a row that is still to be done, with a text              *)
CallsAreListed ==
    \A t \in Tick : tick[t].at # NoEvent =>
        tick[t].at \in tick[t].todo /\ Readable(tick[t].seen[tick[t].at])

AnswersHold ==
    \A t \in Tick, e \in Event : Calling(t, e, "accepted") => memory[e] # 0

KeptIsReadable == \A e \in Event \ Mail : source[e] = 1

KeptIsSeen ==
    \A t \in Tick : \A e \in tick[t].todo \ Mail : tick[t].seen[e] = 1

Inv ==
    /\ TypeOK
    /\ CallsAreListed
    /\ AnswersHold
    /\ EmittedWasReceived
    /\ KeptIsReadable
    /\ KeptIsSeen
    /\ SentIsNeverSkipped

USE DEF Version, Gone, Readable, Stage, Run, Becomes

(* The outbox begins empty.                                                *)
LEMMA InitInv == Init => Inv
  <1> SUFFICES ASSUME Init PROVE Inv
    OBVIOUS
  <1>1. TypeOK
    BY DonorAssumption DEF Init, TypeOK, Idle
  <1>2. CallsAreListed /\ AnswersHold /\ KeptIsSeen
    BY DonorAssumption DEF Init, CallsAreListed, AnswersHold, KeptIsSeen, Calling, Idle
  <1>3. EmittedWasReceived /\ KeptIsReadable /\ SentIsNeverSkipped
    BY DEF Init, EmittedWasReceived, KeptIsReadable, SentIsNeverSkipped
  <1> QED
    BY <1>1, <1>2, <1>3 DEF Inv

-----------------------------------------------------------------------------
(* The steps that leave the publisher alone                                 *)
LEMMA StoreSteps ==
    ASSUME Inv, NEW e \in Event, Edited(e) \/ Removed(e) \/ Enqueue(e)
    PROVE  Inv'
  <1>1. TypeOK'
    BY DonorAssumption DEF Inv, TypeOK, Edited, Removed, Enqueue, BecomesSource
  <1>2. CallsAreListed' /\ AnswersHold' /\ KeptIsSeen'
    BY DEF Inv, CallsAreListed, AnswersHold, KeptIsSeen, Calling,
           Edited, Removed, Enqueue, BecomesSource
  <1>3. KeptIsReadable'
    BY DEF Inv, TypeOK, KeptIsReadable, Edited, Removed, Enqueue, BecomesSource
  <1>4. EmittedWasReceived' /\ SentIsNeverSkipped'
    BY DEF Inv, TypeOK, EmittedWasReceived, SentIsNeverSkipped,
           Edited, Removed, Enqueue, BecomesSource
  <1> QED
    BY <1>1, <1>2, <1>3, <1>4 DEF Inv

(* The invariant over a restart,                                           *)
LEMMA RestartStep == Inv /\ Restart => Inv'
  <1> SUFFICES ASSUME Inv, Restart PROVE Inv'
    OBVIOUS
  <1>1. TypeOK'
    BY DonorAssumption DEF Inv, TypeOK, Restart, Idle
  <1>2. CallsAreListed' /\ AnswersHold' /\ KeptIsSeen'
    BY DonorAssumption DEF CallsAreListed, AnswersHold, KeptIsSeen, Calling, Restart, Idle
  <1>3. KeptIsReadable' /\ EmittedWasReceived' /\ SentIsNeverSkipped'
    BY DEF Inv, KeptIsReadable, EmittedWasReceived, SentIsNeverSkipped, Restart
  <1> QED
    BY <1>1, <1>2, <1>3 DEF Inv

-----------------------------------------------------------------------------
(* the start of a tick,                                                    *)
LEMMA ListingStep ==
    ASSUME Inv, NEW t \in Tick, StartTick(t)
    PROVE  Inv'
  <1>1. TypeOK'
    BY DonorAssumption DEF Inv, TypeOK, StartTick, Listed
  <1>2. CallsAreListed' /\ AnswersHold'
    BY DonorAssumption DEF Inv, TypeOK, CallsAreListed, AnswersHold, Calling, StartTick
  <1>3. KeptIsSeen'
    <2> SUFFICES ASSUME NEW u \in Tick, NEW e \in tick'[u].todo \ Mail
                 PROVE  tick'[u].seen[e] = 1
      BY DEF KeptIsSeen
    <2>1. CASE u # t
      BY <2>1 DEF Inv, TypeOK, KeptIsSeen, StartTick
    <2>2. CASE u = t
      BY <2>2, DonorAssumption DEF Inv, TypeOK, KeptIsReadable, StartTick, Listed
    <2> QED
      BY <2>1, <2>2
  <1>4. KeptIsReadable' /\ EmittedWasReceived' /\ SentIsNeverSkipped'
    BY DEF Inv, KeptIsReadable, EmittedWasReceived, SentIsNeverSkipped, StartTick
  <1> QED
    BY <1>1, <1>2, <1>3, <1>4 DEF Inv

(* A tick that is done with a row keeps what the invariant says of ticks     *)
LEMMA DoneKeepsTicks ==
    ASSUME Inv, NEW t \in Tick, NEW e \in Event, Done(t, e), memory' = memory
    PROVE  /\ tick' \in [Tick -> Run]
           /\ CallsAreListed' /\ AnswersHold' /\ KeptIsSeen'
  <1>1. tick' \in [Tick -> Run]
    BY DonorAssumption DEF Inv, TypeOK, Done
  <1>2. CallsAreListed'
    BY DonorAssumption DEF Inv, TypeOK, CallsAreListed, Done
  <1>3. AnswersHold'
    BY DonorAssumption DEF Inv, TypeOK, AnswersHold, Calling, Done
  <1>4. KeptIsSeen'
    BY DEF Inv, TypeOK, KeptIsSeen, Done
  <1> QED
    BY <1>1, <1>2, <1>3, <1>4

(* a step of a tick with a row,                                            *)
LEMMA RowSteps ==
    ASSUME Inv, NEW t \in Tick, NEW e \in Event, RowStep(t, e)
    PROVE  Inv'
  <1>1. CASE Skip(t, e)
    <2>1. e \in Mail
      BY <1>1 DEF Inv, KeptIsSeen, Skip, Due
    <2>2. TypeOK' /\ KeptIsReadable' /\ EmittedWasReceived' /\ SentIsNeverSkipped'
      BY <1>1, <2>1, DoneKeepsTicks
      DEF Inv, TypeOK, KeptIsReadable, EmittedWasReceived, SentIsNeverSkipped,
          Skip, Settle, StillPending
    <2> QED
      BY <1>1, <2>2, DoneKeepsTicks DEF Inv, Skip
  <1>2. CASE Reject(t, e)
    <2>1. TypeOK' /\ KeptIsReadable' /\ EmittedWasReceived' /\ SentIsNeverSkipped'
      BY <1>2, DoneKeepsTicks
      DEF Inv, TypeOK, KeptIsReadable, EmittedWasReceived, SentIsNeverSkipped, Reject
    <2> QED
      BY <1>2, <2>1, DoneKeepsTicks DEF Inv, Reject
  <1>3. CASE Call(t, e)
    <2>1. TypeOK' /\ KeptIsReadable' /\ EmittedWasReceived' /\ SentIsNeverSkipped'
      BY <1>3, DonorAssumption
      DEF Inv, TypeOK, KeptIsReadable, EmittedWasReceived, SentIsNeverSkipped, Call
    <2>2. tick[t].seen[e] \in 1..MaxVer
      (* only a listed text is ever noted *)
      BY <1>3 DEF Inv, TypeOK, Call, Due
    <2>3. CallsAreListed' /\ AnswersHold' /\ KeptIsSeen'
      BY <1>3, <2>2, DonorAssumption
      DEF Inv, TypeOK, CallsAreListed, AnswersHold, KeptIsSeen, Calling, Call, Due
    <2> QED
      BY <2>1, <2>3 DEF Inv
  <1>4. CASE Registers(t, e)
    <2>1. TypeOK'
      <3>1. tick[t].seen[e] \in Version
        BY DonorAssumption DEF Inv, TypeOK
      <3>2. registered' \in [Event -> Version]
        BY <1>4, <3>1 DEF Inv, TypeOK, Registers
      <3>3. tick' \in [Tick -> Run]
        BY <1>4 DEF Inv, TypeOK, Registers
      <3> QED
        BY <1>4, <3>2, <3>3 DEF Inv, TypeOK, Registers
    <2>2. KeptIsReadable' /\ EmittedWasReceived' /\ SentIsNeverSkipped'
      BY <1>4 DEF Inv, KeptIsReadable, EmittedWasReceived, SentIsNeverSkipped, Registers
    <2>3. CallsAreListed' /\ AnswersHold' /\ KeptIsSeen'
      BY <1>4, DonorAssumption
      DEF Inv, TypeOK, CallsAreListed, AnswersHold, KeptIsSeen, Calling, Registers
    <2> QED
      BY <2>1, <2>2, <2>3 DEF Inv
  <1>5. CASE Receives(t, e)
    <2>1. tick[t].seen[e] # 0 /\ memory'[e] # 0
      BY <1>5, DonorAssumption DEF Inv, TypeOK, CallsAreListed, Receives, Calling
    <2>2. TypeOK' /\ KeptIsReadable' /\ EmittedWasReceived' /\ SentIsNeverSkipped'
      BY <1>5, <2>1, DonorAssumption
      DEF Inv, TypeOK, KeptIsReadable, EmittedWasReceived, SentIsNeverSkipped, Receives
    <2>3. CallsAreListed' /\ AnswersHold' /\ KeptIsSeen'
      BY <1>5, <2>1, DonorAssumption
      DEF Inv, TypeOK, CallsAreListed, AnswersHold, KeptIsSeen, Calling, Receives
    <2> QED
      BY <2>2, <2>3 DEF Inv
  <1>6. CASE Emit(t, e)
    <2>1. memory[e] # 0
      BY <1>6 DEF Inv, AnswersHold, Emit, Acknowledged
    <2>2. TypeOK' /\ KeptIsReadable' /\ EmittedWasReceived' /\ SentIsNeverSkipped'
      BY <1>6, <2>1, DoneKeepsTicks
      DEF Inv, TypeOK, KeptIsReadable, EmittedWasReceived, SentIsNeverSkipped,
          Emit, Settle, StillPending
    <2> QED
      BY <1>6, <2>2, DoneKeepsTicks DEF Inv, Emit
  <1>7. CASE CallFails(t, e)
    <2>1. TypeOK' /\ KeptIsReadable' /\ EmittedWasReceived' /\ SentIsNeverSkipped'
      BY <1>7, DoneKeepsTicks
      DEF Inv, TypeOK, KeptIsReadable, EmittedWasReceived, SentIsNeverSkipped,
          CallFails, Undelivered
    <2> QED
      BY <1>7, <2>1, DoneKeepsTicks DEF Inv, CallFails
  <1> QED
    BY <1>1, <1>2, <1>3, <1>4, <1>5, <1>6, <1>7 DEF RowStep

(* and none.                                                               *)
LEMMA StutterStep == Inv /\ UNCHANGED vars => Inv'
  BY DEF Inv, TypeOK, CallsAreListed, AnswersHold, EmittedWasReceived,
         KeptIsReadable, KeptIsSeen, SentIsNeverSkipped, Calling, vars

(* The invariant holds in every state a run of the specification reaches.   *)
THEOREM Invariance == Spec => []Inv
  <1>1. Inv /\ [Next]_vars => Inv'
    <2> SUFFICES ASSUME Inv, [Next]_vars PROVE Inv'
      OBVIOUS
    <2>1. CASE \E e \in Event : Edited(e) \/ Removed(e) \/ Enqueue(e)
      BY <2>1, StoreSteps
    <2>2. CASE \E t \in Tick : StartTick(t)
      BY <2>2, ListingStep
    <2>3. CASE \E t \in Tick : TickStep(t)
      BY <2>3, RowSteps DEF TickStep
    <2>4. CASE Restart
      BY <2>4, RestartStep
    <2>5. CASE UNCHANGED vars
      BY <2>5, StutterStep
    <2> QED
      BY <2>1, <2>2, <2>3, <2>4, <2>5 DEF Next
  <1> QED
    BY InitInv, <1>1, PTL DEF Spec

-----------------------------------------------------------------------------
(* Rows, ticks and what Second Brain holds keep their types.                *)
THEOREM TypeCorrect == Spec => []TypeOK
  <1>1. Inv => TypeOK
    BY DEF Inv
  <1> QED
    BY Invariance, <1>1, PTL

(* No row is EMITTED whose candidate Second Brain does not have.            *)
THEOREM EmissionsAreReceived == Spec => []EmittedWasReceived
  <1>1. Inv => EmittedWasReceived
    BY DEF Inv
  <1> QED
    BY Invariance, <1>1, PTL

(* The row of a sent draft is never given up.                               *)
THEOREM SentReceiptsAreKept == Spec => []SentIsNeverSkipped
  <1>1. Inv => SentIsNeverSkipped
    BY DEF Inv
  <1> QED
    BY Invariance, <1>1, PTL

(* No step changes an EMITTED or SKIPPED row, in any interleaving of ticks. *)
THEOREM SettledRowsStay == Spec => TerminalForGood
  <1> DEFINE Stays ==
        \A e \in Event : status[e] \in {"EMITTED", "SKIPPED"} => status'[e] = status[e]
  <1>1. Inv /\ [Next]_vars => [Stays]_vars
    <2> SUFFICES ASSUME Inv, Next PROVE Stays
      OBVIOUS
    <2>1. ASSUME NEW e \in Event, Edited(e) \/ Removed(e) \/ Enqueue(e) PROVE Stays
      BY <2>1 DEF Inv, TypeOK, Edited, Removed, Enqueue, BecomesSource
    <2>2. ASSUME NEW t \in Tick, StartTick(t) PROVE Stays
      BY <2>2 DEF StartTick
    <2>3. ASSUME NEW t \in Tick, NEW e \in Event, RowStep(t, e) PROVE Stays
      BY <2>3 DEF Inv, TypeOK, RowStep, Skip, Reject, Call, Registers, Receives,
                  Emit, CallFails, Undelivered, Settle, StillPending
    <2>4. CASE Restart
      BY <2>4 DEF Restart
    <2> QED
      BY <2>1, <2>2, <2>3, <2>4 DEF Next, TickStep
  <1> QED
    BY Invariance, <1>1, PTL DEF Spec, TerminalForGood
=============================================================================
