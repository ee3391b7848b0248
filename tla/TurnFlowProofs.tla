--------------------------- MODULE TurnFlowProofs ---------------------------
(***************************************************************************)
(* Proofs about TurnFlow for every bound on rounds and calls, every set of *)
(* reactions and every outcome of Discord's edits and replies.             *)
(***************************************************************************)
EXTENDS TurnFlow, TLAPS

Closing == {"settle", "finish", "over"}

\* The token is registered only between Register and Unregister, and only with
\* a progress message to react to.
Registration == registered => /\ at \in {"prepare", "compact", "unregister"} \cup InRun
                              /\ progress # "none"

\* Nothing is said before the turn settles, nor by a cancelled turn.
Silence == /\ at \notin {"finish", "over"} => reply = "no"
           /\ cancelled => at # "finish"
           /\ cancelled => reply = "no"

\* A cancel in time is on a turn that still has to look at the flag under the
\* registry's lock, or that has looked and found it.
Caught == inTime => /\ flag
                    /\ registered \/ (at \in Closing /\ cancelled)
                    /\ progress # "none"

\* Calls without a result exist only inside a batch.
Batches == /\ at \notin {"tools", "batch"} => calls = 0
           /\ at = "batch" => calls > 0
           /\ saved # "torn"

\* The progress message is there while its registration is under way, and is
\* deleted only by the step that ends the turn.
Message == /\ at \in {"react", "register"} => progress # "none"
           /\ at # "over" => progress # "deleted"

\* Only the round that breaks the loop exceeds the bound.
Bounded == at \in BeforeRun \cup (InRun \ {"persist"}) => rounds <= MaxRounds

IInv == /\ TypeOK
        /\ Bounded
        /\ Registration
        /\ Silence
        /\ Caught
        /\ Batches
        /\ Message
        /\ AddressedTurnCloses
        /\ CancelledSaysSo

\* A turn starts unregistered, silent and with no calls.
LEMMA InitIInv == Init => IInv
PROOF
  <1> SUFFICES ASSUME Init PROVE IInv
    OBVIOUS
  <1> USE TurnAssumption DEF Init, BeforeRun, InRun, AfterRun, Shown, Closing
  <1>1. TokenTypes BY DEF TokenTypes
  <1>2. LoopTypes /\ Bounded
    <2>1. 0 \in 0..(MaxRounds + 1) /\ 0 \in 0..MaxCalls /\ 0 <= MaxRounds OBVIOUS
    <2>2. rounds = 0 /\ calls = 0 OBVIOUS
    <2>3. tools = FALSE /\ limited = FALSE /\ action = FALSE /\ answered = FALSE /\ cancelled = FALSE
      OBVIOUS
    <2> QED BY <2>1, <2>2, <2>3 DEF LoopTypes, Bounded
  <1>3. TurnTypes BY DEF TurnTypes
  <1>4. Registration /\ Silence /\ Caught BY DEF Registration, Silence, Caught
  <1>5. Batches /\ Message BY DEF Batches, Message
  <1>6. AddressedTurnCloses /\ CancelledSaysSo BY DEF AddressedTurnCloses, CancelledSaysSo
  <1> QED BY <1>1, <1>2, <1>3, <1>4, <1>5, <1>6 DEF IInv, TypeOK

\* What an edit may leave.
LEMMA EditResult ==
  ASSUME NEW status \in {"status", "cancelled", "summary"}, TypeOK, Edit(status)
  PROVE  /\ progress' \in Shown
         /\ progress' \in {progress, status}
         /\ progress' = "none" <=> progress = "none"
         /\ progress' = "deleted" <=> progress = "deleted"
         /\ (EditsAccepted = {TRUE} /\ progress \notin {"none", "deleted"}) => progress' = status
  BY TurnAssumption DEF Edit, TypeOK, TurnTypes, Shown

\* Deleting the status line: it is gone, or Discord refused.
LEMMA DeleteResult ==
  ASSUME TypeOK, Delete
  PROVE  /\ progress' \in Shown
         /\ progress' \in {progress, "deleted"}
         /\ progress' = "none" <=> progress = "none"
         /\ EditsAccepted = {TRUE} => progress' \in {"none", "deleted"}
  BY TurnAssumption DEF Delete, TypeOK, TurnTypes, Shown

\* The steps of the turn before and inside the run.
LEMMA RunStep ==
  ASSUME IInv,
         \/ SendProgress \/ React \/ Register \/ Prepare \/ Compacted
         \/ CheckRound \/ Listen \/ CheckFlag \/ StreamDelta \/ SelectCancelled \/ LlmAnswers
         \/ Recheck \/ CompletionEnds \/ CompletionCalls
         \/ ToolCalled \/ ToolDone \/ BatchDone \/ Persist
  PROVE  IInv'
PROOF
  <1> USE TurnAssumption DEF IInv, TypeOK, BeforeRun, InRun, AfterRun, Shown, Closing, run, cancel
  <1>1. CASE SendProgress
    <2>1. TokenTypes' BY <1>1 DEF SendProgress, TokenTypes
    <2>2. (LoopTypes /\ Bounded)' BY <1>1 DEF SendProgress, LoopTypes, Batches, Bounded
    <2>3. TurnTypes' BY <1>1 DEF SendProgress, TurnTypes
    <2>4. (Registration /\ Caught)' BY <1>1 DEF SendProgress, Registration, Caught, TokenTypes, LoopTypes
    <2>5. Silence' BY <1>1 DEF SendProgress, Silence, Registration
    <2>6. (Batches /\ Message)' BY <1>1 DEF SendProgress, Batches, Message, LoopTypes, Registration
    <2>7. (AddressedTurnCloses /\ CancelledSaysSo)' BY <1>1 DEF SendProgress, AddressedTurnCloses, CancelledSaysSo, Caught, Silence, Message, Registration
    <2> QED BY <2>1, <2>2, <2>3, <2>4, <2>5, <2>6, <2>7
  <1>2. CASE React
    <2>1. TokenTypes' BY <1>2 DEF React, TokenTypes
    <2>2. (LoopTypes /\ Bounded)' BY <1>2 DEF React, LoopTypes, Batches, Bounded
    <2>3. TurnTypes' BY <1>2 DEF React, TurnTypes
    <2>4. (Registration /\ Caught)' BY <1>2 DEF React, Registration, Caught, TokenTypes, LoopTypes
    <2>5. Silence' BY <1>2 DEF React, Silence, Registration
    <2>6. (Batches /\ Message)' BY <1>2 DEF React, Batches, Message, LoopTypes, Registration
    <2>7. (AddressedTurnCloses /\ CancelledSaysSo)' BY <1>2 DEF React, AddressedTurnCloses, CancelledSaysSo, Caught, Silence, Message, Registration
    <2> QED BY <2>1, <2>2, <2>3, <2>4, <2>5, <2>6, <2>7
  <1>3. CASE Register
    <2>1. TokenTypes' BY <1>3 DEF Register, TokenTypes
    <2>2. (LoopTypes /\ Bounded)' BY <1>3 DEF Register, LoopTypes, Batches, Bounded
    <2>3. TurnTypes' BY <1>3 DEF Register, TurnTypes
    <2>4. (Registration /\ Caught)' BY <1>3 DEF Register, Registration, Caught, Message, TokenTypes, LoopTypes
    <2>5. Silence' BY <1>3 DEF Register, Silence, Registration
    <2>6. (Batches /\ Message)' BY <1>3 DEF Register, Batches, Message, LoopTypes, Registration
    <2>7. (AddressedTurnCloses /\ CancelledSaysSo)' BY <1>3 DEF Register, AddressedTurnCloses, CancelledSaysSo, Caught, Silence, Message, Registration
    <2> QED BY <2>1, <2>2, <2>3, <2>4, <2>5, <2>6, <2>7
  <1>4. CASE Prepare
    <2>1. TokenTypes' BY <1>4 DEF Prepare, TokenTypes
    <2>2. (LoopTypes /\ Bounded)' BY <1>4 DEF Prepare, LoopTypes, Batches, Bounded
    <2>3. TurnTypes' BY <1>4 DEF Prepare, TurnTypes
    <2>4. (Registration /\ Caught)' BY <1>4 DEF Prepare, Registration, Caught, TokenTypes, LoopTypes
    <2>5. Silence' BY <1>4 DEF Prepare, Silence, Registration
    <2>6. (Batches /\ Message)' BY <1>4 DEF Prepare, Batches, Message, LoopTypes, Registration
    <2>7. (AddressedTurnCloses /\ CancelledSaysSo)' BY <1>4 DEF Prepare, AddressedTurnCloses, CancelledSaysSo, Caught, Silence, Message, Registration
    <2> QED BY <2>1, <2>2, <2>3, <2>4, <2>5, <2>6, <2>7
  <1>5. CASE CheckRound
    <2>1. TokenTypes' BY <1>5 DEF CheckRound, TokenTypes
    <2>2. (LoopTypes /\ Bounded)'
      <3>1. rounds \in 0..MaxRounds /\ rounds' = rounds + 1
        BY <1>5 DEF CheckRound, LoopTypes, Bounded
      <3>2. rounds' \in 0..(MaxRounds + 1) BY <3>1
      <3>3. answered' \in BOOLEAN /\ cancelled' \in BOOLEAN
        BY <1>5 DEF CheckRound, LoopTypes
      <3>4. UNCHANGED <<calls, tools, limited, action>> BY <1>5 DEF CheckRound
      <3>5. at' = "persist" \/ rounds' <= MaxRounds BY <1>5 DEF CheckRound
      <3> QED BY <3>2, <3>3, <3>4, <3>5 DEF LoopTypes, Bounded
    <2>3. TurnTypes' BY <1>5 DEF CheckRound, TurnTypes
    <2>4. (Registration /\ Caught)' BY <1>5 DEF CheckRound, Registration, Caught, TokenTypes, LoopTypes
    <2>5. Silence' BY <1>5 DEF CheckRound, Silence, Registration
    <2>6. (Batches /\ Message)' BY <1>5 DEF CheckRound, Batches, Message, LoopTypes, Registration
    <2>7. (AddressedTurnCloses /\ CancelledSaysSo)' BY <1>5 DEF CheckRound, AddressedTurnCloses, CancelledSaysSo, Caught, Silence, Message, Registration
    <2> QED BY <2>1, <2>2, <2>3, <2>4, <2>5, <2>6, <2>7
  <1>6. CASE Listen
    <2>1. TokenTypes' BY <1>6 DEF Listen, TokenTypes
    <2>2. (LoopTypes /\ Bounded)' BY <1>6 DEF Listen, LoopTypes, Batches, Bounded
    <2>3. TurnTypes' BY <1>6 DEF Listen, TurnTypes
    <2>4. (Registration /\ Caught)' BY <1>6 DEF Listen, Registration, Caught, TokenTypes, LoopTypes
    <2>5. Silence' BY <1>6 DEF Listen, Silence, Registration
    <2>6. (Batches /\ Message)' BY <1>6 DEF Listen, Batches, Message, LoopTypes, Registration
    <2>7. (AddressedTurnCloses /\ CancelledSaysSo)' BY <1>6 DEF Listen, AddressedTurnCloses, CancelledSaysSo, Caught, Silence, Message, Registration
    <2> QED BY <2>1, <2>2, <2>3, <2>4, <2>5, <2>6, <2>7
  <1>7. CASE CheckFlag
    <2>1. TokenTypes' BY <1>7 DEF CheckFlag, TokenTypes
    <2>2. (LoopTypes /\ Bounded)' BY <1>7 DEF CheckFlag, LoopTypes, Batches, Bounded
    <2>3. TurnTypes' BY <1>7 DEF CheckFlag, TurnTypes
    <2>4. (Registration /\ Caught)' BY <1>7 DEF CheckFlag, Registration, Caught, TokenTypes, LoopTypes
    <2>5. Silence' BY <1>7 DEF CheckFlag, Silence, Registration
    <2>6. (Batches /\ Message)' BY <1>7 DEF CheckFlag, Batches, Message, LoopTypes, Registration
    <2>7. (AddressedTurnCloses /\ CancelledSaysSo)' BY <1>7 DEF CheckFlag, AddressedTurnCloses, CancelledSaysSo, Caught, Silence, Message, Registration
    <2> QED BY <2>1, <2>2, <2>3, <2>4, <2>5, <2>6, <2>7
  <1>8. CASE StreamDelta
    <2>1. TokenTypes' BY <1>8 DEF StreamDelta, TokenTypes
    <2>2. (LoopTypes /\ Bounded)' BY <1>8 DEF StreamDelta, LoopTypes, Batches, Bounded
    <2>3. TurnTypes' BY <1>8, EditResult DEF StreamDelta, TurnTypes
    <2>4. (Registration /\ Caught)' BY <1>8, EditResult DEF StreamDelta, Registration, Caught, TokenTypes, LoopTypes
    <2>5. Silence' BY <1>8, EditResult DEF StreamDelta, Silence, Registration
    <2>6. (Batches /\ Message)' BY <1>8, EditResult DEF StreamDelta, Batches, Message, LoopTypes, Registration
    <2>7. (AddressedTurnCloses /\ CancelledSaysSo)' BY <1>8, EditResult DEF StreamDelta, AddressedTurnCloses, CancelledSaysSo, Caught, Silence, Message, Registration
    <2> QED BY <2>1, <2>2, <2>3, <2>4, <2>5, <2>6, <2>7
  <1>9. CASE SelectCancelled
    <2>1. TokenTypes' BY <1>9 DEF SelectCancelled, BreakCancelled, TokenTypes
    <2>2. (LoopTypes /\ Bounded)' BY <1>9 DEF SelectCancelled, BreakCancelled, LoopTypes, Batches, Bounded
    <2>3. TurnTypes' BY <1>9 DEF SelectCancelled, BreakCancelled, TurnTypes
    <2>4. (Registration /\ Caught)' BY <1>9 DEF SelectCancelled, BreakCancelled, Registration, Caught, TokenTypes, LoopTypes
    <2>5. Silence' BY <1>9 DEF SelectCancelled, BreakCancelled, Silence, Registration
    <2>6. (Batches /\ Message)' BY <1>9 DEF SelectCancelled, BreakCancelled, Batches, Message, LoopTypes, Registration
    <2>7. (AddressedTurnCloses /\ CancelledSaysSo)' BY <1>9 DEF SelectCancelled, BreakCancelled, AddressedTurnCloses, CancelledSaysSo, Caught, Silence, Message, Registration
    <2> QED BY <2>1, <2>2, <2>3, <2>4, <2>5, <2>6, <2>7
  <1>10. CASE LlmAnswers
    <2>1. TokenTypes' BY <1>10 DEF LlmAnswers, TokenTypes
    <2>2. (LoopTypes /\ Bounded)' BY <1>10 DEF LlmAnswers, LoopTypes, Batches, Bounded
    <2>3. TurnTypes' BY <1>10 DEF LlmAnswers, TurnTypes
    <2>4. (Registration /\ Caught)' BY <1>10 DEF LlmAnswers, Registration, Caught, TokenTypes, LoopTypes
    <2>5. Silence' BY <1>10 DEF LlmAnswers, Silence, Registration
    <2>6. (Batches /\ Message)' BY <1>10 DEF LlmAnswers, Batches, Message, LoopTypes, Registration
    <2>7. (AddressedTurnCloses /\ CancelledSaysSo)' BY <1>10 DEF LlmAnswers, AddressedTurnCloses, CancelledSaysSo, Caught, Silence, Message, Registration
    <2> QED BY <2>1, <2>2, <2>3, <2>4, <2>5, <2>6, <2>7
  <1>11. CASE Recheck
    <2>1. TokenTypes' BY <1>11 DEF Recheck, BreakCancelled, TokenTypes
    <2>2. (LoopTypes /\ Bounded)' BY <1>11 DEF Recheck, BreakCancelled, LoopTypes, Batches, Bounded
    <2>3. TurnTypes' BY <1>11 DEF Recheck, BreakCancelled, TurnTypes
    <2>4. (Registration /\ Caught)' BY <1>11 DEF Recheck, BreakCancelled, Registration, Caught, TokenTypes, LoopTypes
    <2>5. Silence' BY <1>11 DEF Recheck, BreakCancelled, Silence, Registration
    <2>6. (Batches /\ Message)' BY <1>11 DEF Recheck, BreakCancelled, Batches, Message, LoopTypes, Registration
    <2>7. (AddressedTurnCloses /\ CancelledSaysSo)' BY <1>11 DEF Recheck, BreakCancelled, AddressedTurnCloses, CancelledSaysSo, Caught, Silence, Message, Registration
    <2> QED BY <2>1, <2>2, <2>3, <2>4, <2>5, <2>6, <2>7
  <1>12. CASE CompletionEnds
    <2>1. TokenTypes' BY <1>12 DEF CompletionEnds, BreakWith, TokenTypes
    <2>2. (LoopTypes /\ Bounded)' BY <1>12 DEF CompletionEnds, BreakWith, LoopTypes, Batches, Bounded
    <2>3. TurnTypes' BY <1>12 DEF CompletionEnds, BreakWith, TurnTypes
    <2>4. (Registration /\ Caught)' BY <1>12 DEF CompletionEnds, BreakWith, Registration, Caught, TokenTypes, LoopTypes
    <2>5. Silence' BY <1>12 DEF CompletionEnds, BreakWith, Silence, Registration
    <2>6. (Batches /\ Message)' BY <1>12 DEF CompletionEnds, BreakWith, Batches, Message, LoopTypes, Registration
    <2>7. (AddressedTurnCloses /\ CancelledSaysSo)' BY <1>12 DEF CompletionEnds, BreakWith, AddressedTurnCloses, CancelledSaysSo, Caught, Silence, Message, Registration
    <2> QED BY <2>1, <2>2, <2>3, <2>4, <2>5, <2>6, <2>7
  <1>13. CASE CompletionCalls
    <2>1. TokenTypes' BY <1>13 DEF CompletionCalls, TokenTypes
    <2>2. (LoopTypes /\ Bounded)'
      <3>1. calls' \in 0..MaxCalls BY <1>13 DEF CompletionCalls
      <3>2. UNCHANGED <<rounds, tools, action, answered, cancelled>> /\ limited' = FALSE
        BY <1>13 DEF CompletionCalls
      <3>3. rounds <= MaxRounds BY <1>13 DEF CompletionCalls, Bounded
      <3> QED BY <3>1, <3>2, <3>3 DEF LoopTypes, Bounded
    <2>3. TurnTypes' BY <1>13 DEF CompletionCalls, TurnTypes
    <2>4. (Registration /\ Caught)' BY <1>13 DEF CompletionCalls, Registration, Caught, TokenTypes, LoopTypes
    <2>5. Silence' BY <1>13 DEF CompletionCalls, Silence, Registration
    <2>6. (Batches /\ Message)' BY <1>13 DEF CompletionCalls, Batches, Message, LoopTypes, Registration
    <2>7. (AddressedTurnCloses /\ CancelledSaysSo)' BY <1>13 DEF CompletionCalls, AddressedTurnCloses, CancelledSaysSo, Caught, Silence, Message, Registration
    <2> QED BY <2>1, <2>2, <2>3, <2>4, <2>5, <2>6, <2>7
  <1>14. CASE ToolCalled
    <2>1. TokenTypes' BY <1>14 DEF ToolCalled, TokenTypes
    <2>2. (LoopTypes /\ Bounded)' BY <1>14 DEF ToolCalled, LoopTypes, Batches, Bounded
    <2>3. TurnTypes' BY <1>14, EditResult DEF ToolCalled, TurnTypes
    <2>4. (Registration /\ Caught)' BY <1>14, EditResult DEF ToolCalled, Registration, Caught, TokenTypes, LoopTypes
    <2>5. Silence' BY <1>14, EditResult DEF ToolCalled, Silence, Registration
    <2>6. (Batches /\ Message)' BY <1>14, EditResult DEF ToolCalled, Batches, Message, LoopTypes, Registration
    <2>7. (AddressedTurnCloses /\ CancelledSaysSo)' BY <1>14, EditResult DEF ToolCalled, AddressedTurnCloses, CancelledSaysSo, Caught, Silence, Message, Registration
    <2> QED BY <2>1, <2>2, <2>3, <2>4, <2>5, <2>6, <2>7
  <1>15. CASE ToolDone
    <2>1. TokenTypes' BY <1>15 DEF ToolDone, TokenTypes
    <2>2. (LoopTypes /\ Bounded)' BY <1>15 DEF ToolDone, LoopTypes, Batches, Bounded
    <2>3. TurnTypes' BY <1>15 DEF ToolDone, TurnTypes
    <2>4. (Registration /\ Caught)' BY <1>15 DEF ToolDone, Registration, Caught, TokenTypes, LoopTypes
    <2>5. Silence' BY <1>15 DEF ToolDone, Silence, Registration
    <2>6. (Batches /\ Message)' BY <1>15 DEF ToolDone, Batches, Message, LoopTypes, Registration
    <2>7. (AddressedTurnCloses /\ CancelledSaysSo)' BY <1>15 DEF ToolDone, AddressedTurnCloses, CancelledSaysSo, Caught, Silence, Message, Registration
    <2> QED BY <2>1, <2>2, <2>3, <2>4, <2>5, <2>6, <2>7
  <1>16. CASE BatchDone
    <2>1. TokenTypes' BY <1>16 DEF BatchDone, BreakWith, TokenTypes
    <2>2. (LoopTypes /\ Bounded)' BY <1>16 DEF BatchDone, BreakWith, LoopTypes, Batches, Bounded
    <2>3. TurnTypes' BY <1>16 DEF BatchDone, BreakWith, TurnTypes
    <2>4. (Registration /\ Caught)' BY <1>16 DEF BatchDone, BreakWith, Registration, Caught, TokenTypes, LoopTypes
    <2>5. Silence' BY <1>16 DEF BatchDone, BreakWith, Silence, Registration
    <2>6. (Batches /\ Message)' BY <1>16 DEF BatchDone, BreakWith, Batches, Message, LoopTypes, Registration
    <2>7. (AddressedTurnCloses /\ CancelledSaysSo)' BY <1>16 DEF BatchDone, BreakWith, AddressedTurnCloses, CancelledSaysSo, Caught, Silence, Message, Registration
    <2> QED BY <2>1, <2>2, <2>3, <2>4, <2>5, <2>6, <2>7
  <1>17. CASE Persist
    <2>1. TokenTypes' BY <1>17 DEF Persist, TokenTypes
    <2>2. (LoopTypes /\ Bounded)' BY <1>17 DEF Persist, LoopTypes, Batches, Bounded
    <2>3. TurnTypes' BY <1>17 DEF Persist, TurnTypes
    <2>4. (Registration /\ Caught)' BY <1>17 DEF Persist, Registration, Caught, TokenTypes, LoopTypes
    <2>5. Silence' BY <1>17 DEF Persist, Silence, Registration
    <2>6. (Batches /\ Message)' BY <1>17 DEF Persist, Batches, Message, LoopTypes, Registration
    <2>7. (AddressedTurnCloses /\ CancelledSaysSo)' BY <1>17 DEF Persist, AddressedTurnCloses, CancelledSaysSo, Caught, Silence, Message, Registration
    <2> QED BY <2>1, <2>2, <2>3, <2>4, <2>5, <2>6, <2>7
  <1>18. CASE Compacted
    <2>1. TokenTypes' BY <1>18 DEF Compacted, TokenTypes
    <2>2. (LoopTypes /\ Bounded)' BY <1>18 DEF Compacted, LoopTypes, Batches, Bounded
    <2>3. TurnTypes' BY <1>18 DEF Compacted, TurnTypes
    <2>4. (Registration /\ Caught)' BY <1>18 DEF Compacted, Registration, Caught, TokenTypes, LoopTypes
    <2>5. Silence' BY <1>18 DEF Compacted, Silence, Registration
    <2>6. (Batches /\ Message)' BY <1>18 DEF Compacted, Batches, Message, LoopTypes, Registration
    <2>7. (AddressedTurnCloses /\ CancelledSaysSo)' BY <1>18 DEF Compacted, AddressedTurnCloses, CancelledSaysSo, Caught, Silence, Message, Registration
    <2> QED BY <2>1, <2>2, <2>3, <2>4, <2>5, <2>6, <2>7
  <1> QED BY <1>1, <1>2, <1>3, <1>4, <1>5, <1>6, <1>7, <1>8, <1>9, <1>10, <1>11, <1>12, <1>13, <1>14, <1>15, <1>16, <1>17, <1>18

\* The steps that end the turn.
LEMMA ClosingStep ==
  ASSUME IInv,
         \/ Unregister \/ SettleCancelled \/ SettleWithheld \/ SettleAction \/ SettleReply
         \/ Finish
  PROVE  IInv'
PROOF
  <1> USE TurnAssumption DEF IInv, TypeOK, BeforeRun, InRun, AfterRun, Shown, Closing, run, cancel
  <1>1. CASE Unregister
    <2>1. TokenTypes' BY <1>1 DEF Unregister, TokenTypes
    <2>2. (LoopTypes /\ Bounded)' BY <1>1 DEF Unregister, LoopTypes, Batches, Bounded
    <2>3. TurnTypes' BY <1>1 DEF Unregister, TurnTypes
    <2>4. (Registration /\ Caught)' BY <1>1 DEF Unregister, Registration, Caught, TokenTypes, LoopTypes
    <2>5. Silence' BY <1>1 DEF Unregister, Silence, Registration
    <2>6. (Batches /\ Message)' BY <1>1 DEF Unregister, Batches, Message, LoopTypes, Registration
    <2>7. (AddressedTurnCloses /\ CancelledSaysSo)' BY <1>1 DEF Unregister, AddressedTurnCloses, CancelledSaysSo, Caught, Silence, Message, Registration
    <2> QED BY <2>1, <2>2, <2>3, <2>4, <2>5, <2>6, <2>7
  <1>2. CASE SettleCancelled
    <2>1. TokenTypes' BY <1>2 DEF SettleCancelled, TokenTypes
    <2>2. (LoopTypes /\ Bounded)' BY <1>2 DEF SettleCancelled, LoopTypes, Batches, Bounded
    <2>3. TurnTypes' BY <1>2, EditResult DEF SettleCancelled, TurnTypes
    <2>4. (Registration /\ Caught)' BY <1>2, EditResult DEF SettleCancelled, Registration, Caught, TokenTypes, LoopTypes
    <2>5. Silence' BY <1>2, EditResult DEF SettleCancelled, Silence, Registration
    <2>6. (Batches /\ Message)' BY <1>2, EditResult DEF SettleCancelled, Batches, Message, LoopTypes, Registration
    <2>7. (AddressedTurnCloses /\ CancelledSaysSo)' BY <1>2, EditResult DEF SettleCancelled, AddressedTurnCloses, CancelledSaysSo, Caught, Silence, Message, Registration
    <2> QED BY <2>1, <2>2, <2>3, <2>4, <2>5, <2>6, <2>7
  <1>3. CASE SettleWithheld
    <2>1. TokenTypes' BY <1>3 DEF SettleWithheld, TokenTypes
    <2>2. (LoopTypes /\ Bounded)' BY <1>3 DEF SettleWithheld, LoopTypes, Batches, Bounded
    <2>3. TurnTypes' BY <1>3 DEF SettleWithheld, TurnTypes
    <2>4. (Registration /\ Caught)' BY <1>3 DEF SettleWithheld, Registration, Caught, TokenTypes, LoopTypes
    <2>5. Silence' BY <1>3 DEF SettleWithheld, Silence, Registration
    <2>6. (Batches /\ Message)' BY <1>3 DEF SettleWithheld, Batches, Message, LoopTypes, Registration
    <2>7. (AddressedTurnCloses /\ CancelledSaysSo)' BY <1>3 DEF SettleWithheld, AddressedTurnCloses, CancelledSaysSo, Caught, Silence, Message, Registration
    <2> QED BY <2>1, <2>2, <2>3, <2>4, <2>5, <2>6, <2>7
  <1>4. CASE SettleAction
    <2>1. TokenTypes' BY <1>4 DEF SettleAction, TokenTypes
    <2>2. (LoopTypes /\ Bounded)' BY <1>4 DEF SettleAction, LoopTypes, Batches, Bounded
    <2>3. TurnTypes' BY <1>4 DEF SettleAction, TurnTypes
    <2>4. (Registration /\ Caught)' BY <1>4 DEF SettleAction, Registration, Caught, TokenTypes, LoopTypes
    <2>5. Silence' BY <1>4 DEF SettleAction, Silence, Registration
    <2>6. (Batches /\ Message)' BY <1>4 DEF SettleAction, Batches, Message, LoopTypes, Registration
    <2>7. (AddressedTurnCloses /\ CancelledSaysSo)' BY <1>4 DEF SettleAction, AddressedTurnCloses, CancelledSaysSo, Caught, Silence, Message, Registration
    <2> QED BY <2>1, <2>2, <2>3, <2>4, <2>5, <2>6, <2>7
  <1>5. CASE SettleReply
    <2>1. TokenTypes' BY <1>5 DEF SettleReply, TokenTypes
    <2>2. (LoopTypes /\ Bounded)' BY <1>5 DEF SettleReply, LoopTypes, Batches, Bounded
    <2>3. TurnTypes' BY <1>5 DEF SettleReply, TurnTypes
    <2>4. (Registration /\ Caught)' BY <1>5 DEF SettleReply, Registration, Caught, TokenTypes, LoopTypes
    <2>5. Silence' BY <1>5 DEF SettleReply, Silence, Registration
    <2>6. (Batches /\ Message)' BY <1>5 DEF SettleReply, Batches, Message, LoopTypes, Registration
    <2>7. (AddressedTurnCloses /\ CancelledSaysSo)' BY <1>5 DEF SettleReply, AddressedTurnCloses, CancelledSaysSo, Caught, Silence, Message, Registration
    <2> QED BY <2>1, <2>2, <2>3, <2>4, <2>5, <2>6, <2>7
  <1>6. CASE Finish
    <2>1. TokenTypes' BY <1>6 DEF Finish, TokenTypes
    <2>2. (LoopTypes /\ Bounded)' BY <1>6 DEF Finish, LoopTypes, Batches, Bounded
    <2>3. TurnTypes' BY <1>6, EditResult, DeleteResult DEF Finish, TurnTypes
    <2>4. (Registration /\ Caught)' BY <1>6, EditResult, DeleteResult DEF Finish, Registration, Caught, TokenTypes, LoopTypes
    <2>5. Silence' BY <1>6, EditResult, DeleteResult DEF Finish, Silence, Registration
    <2>6. (Batches /\ Message)' BY <1>6, EditResult, DeleteResult DEF Finish, Batches, Message, LoopTypes, Registration
    <2>7. (AddressedTurnCloses /\ CancelledSaysSo)' BY <1>6, EditResult, DeleteResult DEF Finish, AddressedTurnCloses, CancelledSaysSo, Caught, Silence, Message, Registration
    <2> QED BY <2>1, <2>2, <2>3, <2>4, <2>5, <2>6, <2>7
  <1> QED BY <1>1, <1>2, <1>3, <1>4, <1>5, <1>6

\* The steps of a reaction's handler, at any point of the turn.
LEMMA HandlerStep ==
  ASSUME IInv, NEW r \in Reactions, Handle(r)
  PROVE  IInv'
PROOF
  <1> USE TurnAssumption DEF IInv, TypeOK, BeforeRun, InRun, AfterRun, Shown, Closing, run, cancel
  <1>1. CASE Lookup(r)
    <2>1. TokenTypes' BY <1>1 DEF Lookup, TokenTypes
    <2>2. (LoopTypes /\ Bounded)' BY <1>1 DEF Lookup, LoopTypes, Batches, Bounded
    <2>3. TurnTypes' BY <1>1 DEF Lookup, TurnTypes
    <2>4. (Registration /\ Caught)' BY <1>1 DEF Lookup, Registration, Caught, TokenTypes, LoopTypes
    <2>5. Silence' BY <1>1 DEF Lookup, Silence, Registration
    <2>6. (Batches /\ Message)' BY <1>1 DEF Lookup, Batches, Message, LoopTypes, Registration
    <2>7. (AddressedTurnCloses /\ CancelledSaysSo)' BY <1>1 DEF Lookup, AddressedTurnCloses, CancelledSaysSo, Caught, Silence, Message, Registration
    <2> QED BY <2>1, <2>2, <2>3, <2>4, <2>5, <2>6, <2>7
  <1>2. CASE SetFlag(r)
    <2>1. TokenTypes' BY <1>2 DEF SetFlag, TokenTypes
    <2>2. (LoopTypes /\ Bounded)' BY <1>2 DEF SetFlag, LoopTypes, Batches, Bounded
    <2>3. TurnTypes' BY <1>2 DEF SetFlag, TurnTypes
    <2>4. (Registration /\ Caught)' BY <1>2 DEF SetFlag, Registration, Caught, TokenTypes, LoopTypes
    <2>5. Silence' BY <1>2 DEF SetFlag, Silence, Registration
    <2>6. (Batches /\ Message)' BY <1>2 DEF SetFlag, Batches, Message, LoopTypes, Registration
    <2>7. (AddressedTurnCloses /\ CancelledSaysSo)' BY <1>2 DEF SetFlag, AddressedTurnCloses, CancelledSaysSo, Caught, Silence, Message, Registration
    <2> QED BY <2>1, <2>2, <2>3, <2>4, <2>5, <2>6, <2>7
  <1>3. CASE NotifyWaiters(r)
    <2>1. TokenTypes' BY <1>3 DEF NotifyWaiters, TokenTypes
    <2>2. (LoopTypes /\ Bounded)' BY <1>3 DEF NotifyWaiters, LoopTypes, Batches, Bounded
    <2>3. TurnTypes' BY <1>3 DEF NotifyWaiters, TurnTypes
    <2>4. (Registration /\ Caught)' BY <1>3 DEF NotifyWaiters, Registration, Caught, TokenTypes, LoopTypes
    <2>5. Silence' BY <1>3 DEF NotifyWaiters, Silence, Registration
    <2>6. (Batches /\ Message)' BY <1>3 DEF NotifyWaiters, Batches, Message, LoopTypes, Registration
    <2>7. (AddressedTurnCloses /\ CancelledSaysSo)' BY <1>3 DEF NotifyWaiters, AddressedTurnCloses, CancelledSaysSo, Caught, Silence, Message, Registration
    <2> QED BY <2>1, <2>2, <2>3, <2>4, <2>5, <2>6, <2>7
  <1>4. CASE EditCancelled(r)
    <2>1. TokenTypes' BY <1>4 DEF EditCancelled, TokenTypes
    <2>2. (LoopTypes /\ Bounded)' BY <1>4 DEF EditCancelled, LoopTypes, Batches, Bounded
    <2>3. TurnTypes' BY <1>4, EditResult DEF EditCancelled, TurnTypes
    <2>4. (Registration /\ Caught)' BY <1>4, EditResult DEF EditCancelled, Registration, Caught, TokenTypes, LoopTypes
    <2>5. Silence' BY <1>4, EditResult DEF EditCancelled, Silence, Registration
    <2>6. (Batches /\ Message)' BY <1>4, EditResult DEF EditCancelled, Batches, Message, LoopTypes, Registration
    <2>7. (AddressedTurnCloses /\ CancelledSaysSo)' BY <1>4, EditResult DEF EditCancelled, AddressedTurnCloses, CancelledSaysSo, Caught, Silence, Message, Registration
    <2> QED BY <2>1, <2>2, <2>3, <2>4, <2>5, <2>6, <2>7
  <1> QED BY <1>1, <1>2, <1>3, <1>4 DEF Handle

\* The inductive invariant of a turn.
THEOREM TurnInvariant == Spec => []IInv
PROOF
  <1>1. IInv /\ [Next]_vars => IInv'
    <2> SUFFICES ASSUME IInv, [Next]_vars PROVE IInv'
      OBVIOUS
    <2>1. CASE TurnStep BY <2>1, RunStep, ClosingStep DEF TurnStep
    <2>2. CASE Compacted \/ StreamDelta \/ LlmAnswers BY <2>2, RunStep
    <2>3. CASE \E r \in Reactions : Handle(r) BY <2>3, HandlerStep
    <2>4. CASE UNCHANGED vars
      <3> USE <2>4 DEF vars, run, cancel, IInv, TypeOK
      <3>1. (TokenTypes /\ TurnTypes)' BY DEF TokenTypes, TurnTypes
      <3>2. (LoopTypes /\ Bounded)' BY DEF LoopTypes, Bounded
      <3>3. (Registration /\ Silence /\ Caught)' BY DEF Registration, Silence, Caught
      <3>4. (Batches /\ Message)' BY DEF Batches, Message
      <3>5. (AddressedTurnCloses /\ CancelledSaysSo)' BY DEF AddressedTurnCloses, CancelledSaysSo
      <3> QED BY <3>1, <3>2, <3>3, <3>4, <3>5
    <2> QED BY <2>1, <2>2, <2>3, <2>4 DEF Next, Done
  <1> QED BY <1>1, InitIInv, PTL DEF Spec

\* Whatever the bounds, a cancel that takes effect while the turn is registered
\* is never followed by a reply (message_flow.rs:371-393).
THEOREM CancelWins == Spec => []CancelInTimeSticks
PROOF
  <1>1. IInv => CancelInTimeSticks
    BY DEF IInv, Caught, Registration, Silence, CancelInTimeSticks, InRun
  <1> QED BY <1>1, TurnInvariant, PTL

\* However long the batches are and wherever the loop breaks, the saved turn
\* holds a result for every tool call (run.rs:228-276).
THEOREM SavedWhole == Spec => []TranscriptBalanced
PROOF
  <1>1. IInv => TranscriptBalanced
    BY DEF IInv, Batches, TranscriptBalanced
  <1> QED BY <1>1, TurnInvariant, PTL

\* An addressed turn never ends under a standing status line unless Discord
\* refuses an edit (progress.rs:190-229).
THEOREM LineCloses == Spec => []AddressedTurnCloses
PROOF
  <1>1. IInv => AddressedTurnCloses
    BY DEF IInv
  <1> QED BY <1>1, TurnInvariant, PTL

\* A turn cancelled in time ends saying so, whoever wrote the line last.
THEOREM CancelShown == Spec => []CancelledSaysSo
PROOF
  <1>1. IInv => CancelledSaysSo
    BY DEF IInv
  <1> QED BY <1>1, TurnInvariant, PTL

\* The turn's variables stay in their types.
THEOREM TurnTyped == Spec => []TypeOK
PROOF
  <1>1. IInv => TypeOK
    BY DEF IInv
  <1> QED BY <1>1, TurnInvariant, PTL
=============================================================================
