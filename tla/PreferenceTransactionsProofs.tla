--------------------- MODULE PreferenceTransactionsProofs ---------------------
(***************************************************************************)
(* Theorems about PreferenceTransactions for any number of sessions,       *)
(* stages, keys, generations and acceptances, with native writes that may  *)
(* outlive their calls and a root that may be lost.                        *)
(***************************************************************************)
EXTENDS PreferenceTransactions, TLAPS

Inv == TypeOK /\ Links

RegisterTypeOK ==
    /\ head \in MaybeRecord
    /\ write \in Write \cup {NoWrite}
    /\ call \in [Sessions -> Call]

(***************************************************************************)
(* What a step of the register may do to the publications: it neither      *)
(* invents one nor changes one, and only the head or the boundary's owner  *)
(* moves.  Stated for the steps the sessions take part in.                 *)
(***************************************************************************)
LEMMA LeaveBoundaryKeepsWrite ==
  ASSUME TypeOK, PublicationLinks, write # NoWrite,
         NEW b \in Sessions \cup {NoOwner}, Register!LeaveBoundary(b)
  PROVE  /\ write' \in Write \cup {NoWrite}
         /\ write' # NoWrite => /\ write'.by = b
                                /\ write'.expected = write.expected
                                /\ write'.candidate = write.candidate
  <1>1. CASE write' = NoWrite
    BY <1>1
  <1>2. CASE write' = [write EXCEPT !.by = b]
    BY <1>2 DEF TypeOK, Write
  <1>3. QED BY <1>1, <1>2 DEF Register!LeaveBoundary

LEMMA EnterPreserves ==
  ASSUME TypeOK, PublicationLinks, NEW s \in Sessions, Register!Enter(s)
  PROVE  RegisterTypeOK' /\ PublicationLinks'
  <1> USE NoWriteAssumption DEF TypeOK, Call, Write, MaybeRecord
  <1>1. call' = [call EXCEPT ![s].phase = "inside"] /\ head' = head /\ write = NoWrite
    BY DEF Register!Enter
  <1>2. write' = [by |-> s, expected |-> call[s].expected,
                  candidate |-> call[s].candidate, selected |-> FALSE]
    BY DEF Register!Enter
  <1>3. /\ call[s].candidate \in Record
        /\ Ledger!Follows(call[s].expected, call[s].candidate)
    BY DEF Register!Enter, PublicationLinks
  <1>4. call' \in [Sessions -> Call]
    BY <1>1 DEF Register!Phases
  <1>5. write' \in Write
    BY <1>2, <1>3
  <1>6. RegisterTypeOK'
    BY <1>1, <1>4, <1>5 DEF RegisterTypeOK
  <1>7. ASSUME NEW c \in Sessions, call'[c].phase = "inside"
        PROVE  write' # NoWrite /\ write'.by = c
    BY <1>1, <1>2, <1>5, <1>7 DEF PublicationLinks
  <1>8. ASSUME NEW c \in Sessions, call'[c].phase # "idle"
        PROVE  /\ call'[c].candidate \in Record
               /\ Ledger!Follows(call'[c].expected, call'[c].candidate)
    <2>1. /\ call'[c].candidate = call[c].candidate
          /\ call'[c].expected = call[c].expected
          /\ c # s => call'[c] = call[c]
      BY <1>1
    <2>2. QED BY <1>3, <1>8, <2>1 DEF PublicationLinks
  <1>9. Ledger!Follows(write'.expected, write'.candidate)
    BY <1>2, <1>3
  <1>10. QED BY <1>6, <1>7, <1>8, <1>9 DEF PublicationLinks

LEMMA InvokePreserves ==
  ASSUME TypeOK, PublicationLinks, NEW s \in Sessions, NEW e \in MaybeRecord,
         NEW r \in Record, Ledger!Follows(e, r), Register!Invoke(s, e, r)
  PROVE  RegisterTypeOK' /\ PublicationLinks'
  <1> USE DEF TypeOK, Call, MaybeRecord
  <1>1. /\ call' = [call EXCEPT ![s] = [phase |-> "called", expected |-> e, candidate |-> r]]
        /\ head' = head /\ write' = write
    BY DEF Register!Invoke
  <1>2. [phase |-> "called", expected |-> e, candidate |-> r] \in Call
    BY DEF Register!Phases
  <1>3. RegisterTypeOK'
    BY <1>1, <1>2 DEF RegisterTypeOK
  <1>4. \A c \in Sessions : IF c = s
           THEN call'[c] = [phase |-> "called", expected |-> e, candidate |-> r]
           ELSE call'[c] = call[c]
    BY <1>1
  <1>5. QED BY <1>1, <1>3, <1>4 DEF PublicationLinks

(***************************************************************************)
(* A caller that stops waiting, with an answer or by its end, leaves the   *)
(* boundary open or to a late write.                                       *)
(***************************************************************************)
LEMMA StopWaitingPreserves ==
  ASSUME TypeOK, PublicationLinks, NEW s \in Sessions,
         NEW b \in Sessions \cup {NoOwner},
         head' = head,
         call' = [call EXCEPT ![s] = Register!IdleCall],
         \/ write' = write /\ (write # NoWrite => write.by # s \/ call[s].phase # "inside")
         \/ write # NoWrite /\ write.by = s /\ Register!LeaveBoundary(b)
  PROVE  RegisterTypeOK' /\ PublicationLinks'
  <1> USE DEF TypeOK
  <1>1. /\ \A c \in Sessions : call'[c] = IF c = s THEN Register!IdleCall ELSE call[c]
        /\ Register!IdleCall \in Call
        /\ Register!IdleCall.phase = "idle"
    BY DEF Register!IdleCall, Call, Register!Phases, MaybeRecord
  <1>2. call' \in [Sessions -> Call]
    BY <1>1
  <1>3. \A c \in Sessions : call'[c].phase # "idle" =>
          /\ call'[c].candidate \in Record
          /\ Ledger!Follows(call'[c].expected, call'[c].candidate)
    BY <1>1 DEF PublicationLinks
  <1>4. CASE write' = write /\ (write # NoWrite => write.by # s \/ call[s].phase # "inside")
    <2>1. \A c \in Sessions : call'[c].phase = "inside" => write' # NoWrite /\ write'.by = c
      BY <1>1, <1>4 DEF PublicationLinks
    <2>2. write' # NoWrite => Ledger!Follows(write'.expected, write'.candidate)
      BY <1>4 DEF PublicationLinks
    <2>3. QED BY <1>2, <1>3, <1>4, <2>1, <2>2 DEF RegisterTypeOK, PublicationLinks
  <1>5. CASE write # NoWrite /\ write.by = s /\ Register!LeaveBoundary(b)
    <2>1. /\ write' \in Write \cup {NoWrite}
          /\ write' # NoWrite => /\ write'.by = b
                                 /\ write'.expected = write.expected
                                 /\ write'.candidate = write.candidate
      BY <1>5, LeaveBoundaryKeepsWrite
    <2>2. \A c \in Sessions : call'[c].phase # "inside"
      BY <1>1, <1>5 DEF PublicationLinks
    <2>3. write' # NoWrite => Ledger!Follows(write'.expected, write'.candidate)
      BY <1>5, <2>1 DEF PublicationLinks
    <2>4. QED BY <1>2, <1>3, <2>1, <2>2, <2>3 DEF RegisterTypeOK, PublicationLinks
  <1>6. QED BY <1>4, <1>5

LEMMA AnswerPreserves ==
  ASSUME TypeOK, PublicationLinks, NEW s \in Sessions, NEW o, Register!Answer(s, o)
  PROVE  RegisterTypeOK' /\ PublicationLinks'
  <1>1. head' = head /\ call' = [call EXCEPT ![s] = Register!IdleCall]
    BY DEF Register!Answer
  <1>2. CASE Register!AnswerOutside(s, o)
    BY <1>1, <1>2, StopWaitingPreserves DEF Register!AnswerOutside
  <1>3. CASE Register!AnswerInside(s, o)
    <2>1. write # NoWrite /\ write.by = s
      BY <1>3 DEF Register!AnswerInside, PublicationLinks
    <2>2. Register!LeaveBoundary(s)
      BY <1>3 DEF Register!AnswerInside, Register!LeaveBoundary
    <2>3. QED BY <1>1, <2>1, <2>2, StopWaitingPreserves
  <1>4. QED BY <1>2, <1>3 DEF Register!Answer

LEMMA KillPreserves ==
  ASSUME TypeOK, PublicationLinks, NEW s \in Sessions, Register!Kill(s)
  PROVE  RegisterTypeOK' /\ PublicationLinks'
  <1>1. head' = head /\ call' = [call EXCEPT ![s] = Register!IdleCall]
    BY DEF Register!Kill
  <1>2. CASE write # NoWrite /\ write.by = s
    BY <1>1, <1>2, StopWaitingPreserves DEF Register!Kill
  <1>3. CASE ~(write # NoWrite /\ write.by = s)
    BY <1>1, <1>3, StopWaitingPreserves DEF Register!Kill
  <1>4. QED BY <1>2, <1>3

LEMMA SelectPreserves ==
  ASSUME TypeOK, PublicationLinks, Register!Select
  PROVE  RegisterTypeOK' /\ PublicationLinks'
  <1> USE DEF TypeOK, Write, MaybeRecord
  <1>1. /\ write # NoWrite /\ call' = call /\ head' = write.candidate
        /\ write' = [write EXCEPT !.selected = TRUE]
    BY DEF Register!Select
  <1>2. write' \in Write /\ head' \in Record
    BY <1>1
  <1>3. write'.by = write.by /\ write'.expected = write.expected
        /\ write'.candidate = write.candidate
    BY <1>1
  <1>4. RegisterTypeOK'
    BY <1>1, <1>2 DEF RegisterTypeOK
  <1>5. Ledger!Follows(write'.expected, write'.candidate)
    BY <1>1, <1>3 DEF PublicationLinks
  <1>6. \A c \in Sessions : call'[c].phase = "inside" => write' # NoWrite /\ write'.by = c
    BY <1>1, <1>2, <1>3, NoWriteAssumption DEF PublicationLinks
  <1>7. QED BY <1>1, <1>4, <1>5, <1>6 DEF PublicationLinks

LEMMA SettlePreserves ==
  ASSUME TypeOK, PublicationLinks, Register!Settle
  PROVE  RegisterTypeOK' /\ PublicationLinks'
  <1>1. head' = head /\ call' = call /\ write' = NoWrite /\ write # NoWrite
        /\ write.by \in {NoOwner} \cup {c \in Sessions : call[c].phase # "inside"}
    BY DEF Register!Settle, Register!Late
  <1>2. \A c \in Sessions : call[c].phase # "inside"
    BY <1>1, NoOwnerAssumption DEF PublicationLinks
  <1>3. QED BY <1>1, <1>2 DEF TypeOK, RegisterTypeOK, PublicationLinks

LEMMA VanishPreserves ==
  ASSUME TypeOK, PublicationLinks, Register!Vanish
  PROVE  RegisterTypeOK' /\ PublicationLinks'
  BY DEF Register!Vanish, TypeOK, RegisterTypeOK, PublicationLinks, MaybeRecord

-----------------------------------------------------------------------------
(***************************************************************************)
(* The session s becomes x and the stages stay: enough if x covers its own *)
(* head, still covers whatever s covered, and commits only its own stage.  *)
(***************************************************************************)
SessionTypeOK ==
    /\ sess \in [Sessions -> Session \cup {NoSession}]
    /\ stage \in [Stages -> Stage \cup {NoStage}]

StillCovers(old, new) ==
    new.intact =>
       /\ old.intact
       /\ new.generation = old.generation
       /\ new.key = old.key
       /\ old.checkpoint <= new.checkpoint
       /\ old.events \subseteq new.events
       /\ old.undone \subseteq new.undone

LEMMA StillCoversSaves ==
  ASSUME NEW x \in Session, NEW y \in Session, StillCovers(x, y),
         NEW c \in Record, SessionCoversSave(x, c)
  PROVE  SessionCoversSave(y, c)
  <1>1. x.checkpoint \in Nat /\ y.checkpoint \in Nat /\ c.checkpoint \in Nat
    BY CounterAssumption DEF Session, Record, Counter
  <1>2. QED BY <1>1 DEF StillCovers, SessionCoversSave

LEMMA SessionMoves ==
  ASSUME TypeOK, SessionLinks, StageLinks, NEW s \in Sessions, sess[s] # NoSession,
         NEW x \in Session, sess' = [sess EXCEPT ![s] = x], stage' = stage,
         SessionCoversHead(x), StillCovers(sess[s], x),
         x.committing # NoStage =>
            stage[x.committing] # NoStage /\ stage[x.committing].owner = s
  PROVE  SessionTypeOK' /\ SessionLinks' /\ StageLinks'
  <1>1. \A c \in Sessions : sess'[c] = IF c = s THEN x ELSE sess[c]
    BY DEF TypeOK
  <1>2. SessionTypeOK'
    BY DEF TypeOK, SessionTypeOK
  <1>3. SessionLinks'
    BY <1>1 DEF SessionLinks
  <1>4. ASSUME NEW t \in Stages, stage[t] # NoStage
        PROVE  /\ Ledger!Follows(stage[t].base, stage[t].candidate)
               /\ stage[t].owner # NoOwner =>
                     /\ sess'[stage[t].owner] # NoSession
                     /\ ~stage[t].reset =>
                           SessionCoversSave(sess'[stage[t].owner], stage[t].candidate)
    <2>1. Ledger!Follows(stage[t].base, stage[t].candidate)
      BY <1>4 DEF StageLinks
    <2>2. stage[t] \in Stage
      BY <1>4 DEF TypeOK
    <2>3. stage[t].owner # NoOwner => stage[t].owner \in Sessions
      BY <2>2 DEF Stage
    <2>4. CASE stage[t].owner = s
      <3>1. x # NoSession /\ sess[s] \in Session
        BY NoSessionAssumption DEF TypeOK
      <3>2. ~stage[t].reset => SessionCoversSave(sess[s], stage[t].candidate)
        BY <1>4, <2>4, NoOwnerAssumption DEF StageLinks
      <3>3. stage[t].candidate \in Record
        BY <2>2 DEF Stage
      <3>4. ~stage[t].reset => SessionCoversSave(x, stage[t].candidate)
        BY <3>1, <3>2, <3>3, StillCoversSaves
      <3>5. QED BY <1>1, <2>1, <2>4, <3>1, <3>4
    <2>5. CASE stage[t].owner # s
      BY <1>1, <1>4, <2>1, <2>3, <2>5 DEF StageLinks
    <2>6. QED BY <2>4, <2>5
  <1>5. StageLinks'
    BY <1>4 DEF StageLinks
  <1>6. QED BY <1>2, <1>3, <1>5

LEMMA AcceptPreserves ==
  ASSUME TypeOK, SessionLinks, StageLinks, NEW s \in Sessions, NEW f \in Feedback, Accept(s, f)
  PROVE  SessionTypeOK' /\ SessionLinks' /\ StageLinks'
  <1> DEFINE x == [sess[s] EXCEPT !.events = @ \cup {f}, !.receipts = @ \cup {f}]
  <1>1. sess[s] # NoSession /\ sess[s] \in Session /\ stage' = stage
    BY DEF Accept, Ready, TypeOK
  <1>2. sess' = [sess EXCEPT ![s] = x]
    BY DEF Accept
  <1>3. x \in Session /\ StillCovers(sess[s], x)
    <2>1. x \in Session
      BY <1>1, CounterAssumption DEF Session, Counter
    <2>2. sess[s].checkpoint \in Nat
      BY <1>1, CounterAssumption DEF Session, Counter
    <2>3. QED BY <1>1, <2>1, <2>2 DEF StillCovers, Session
  <1>4. SessionCoversHead(x)
    BY <1>1 DEF SessionLinks, SessionCoversHead, Session
  <1>5. x.committing = sess[s].committing
    BY <1>1 DEF Session
  <1> HIDE DEF x
  <1>6. QED BY <1>1, <1>2, <1>3, <1>4, <1>5, SessionMoves DEF SessionLinks

LEMMA UndoPreserves ==
  ASSUME TypeOK, SessionLinks, StageLinks, NEW s \in Sessions, NEW f \in Feedback, Undo(s, f)
  PROVE  SessionTypeOK' /\ SessionLinks' /\ StageLinks'
  <1> DEFINE x == [sess[s] EXCEPT !.undone = @ \cup {f}]
  <1>1. sess[s] # NoSession /\ sess[s] \in Session /\ stage' = stage
    BY DEF Undo, Ready, TypeOK
  <1>2. sess' = [sess EXCEPT ![s] = x]
    BY DEF Undo
  <1>3. x \in Session /\ StillCovers(sess[s], x)
    <2>1. x \in Session
      BY <1>1, CounterAssumption DEF Session, Counter
    <2>2. sess[s].checkpoint \in Nat
      BY <1>1, CounterAssumption DEF Session, Counter
    <2>3. QED BY <1>1, <2>1, <2>2 DEF StillCovers, Session
  <1>4. SessionCoversHead(x)
    BY <1>1 DEF SessionLinks, SessionCoversHead, Session
  <1>5. x.committing = sess[s].committing
    BY <1>1 DEF Session
  <1> HIDE DEF x
  <1>6. QED BY <1>1, <1>2, <1>3, <1>4, <1>5, SessionMoves DEF SessionLinks

LEMMA ReplaceCorePreserves ==
  ASSUME TypeOK, SessionLinks, StageLinks, NEW s \in Sessions, ReplaceCore(s)
  PROVE  SessionTypeOK' /\ SessionLinks' /\ StageLinks'
  <1> DEFINE x == [sess[s] EXCEPT !.intact = FALSE, !.events = {}, !.undone = {},
                                  !.receipts = {}, !.checkpoint = 0]
  <1>1. sess[s] # NoSession /\ sess[s] \in Session /\ stage' = stage
    BY DEF ReplaceCore, Ready, TypeOK
  <1>2. sess' = [sess EXCEPT ![s] = x]
    BY DEF ReplaceCore
  <1>3. x \in Session /\ StillCovers(sess[s], x)
    <2>1. x \in Session
      <3>1. 0 \in Counter /\ {} \in SUBSET Feedback /\ FALSE \in BOOLEAN
        BY CounterAssumption DEF Counter
      <3>2. QED BY <1>1, <3>1 DEF Session
    <2>2. sess[s].checkpoint \in Nat
      BY <1>1, CounterAssumption DEF Session, Counter
    <2>3. QED BY <1>1, <2>1, <2>2 DEF StillCovers, Session
  <1>4. SessionCoversHead(x)
    BY <1>1 DEF SessionLinks, SessionCoversHead, Session
  <1>5. x.committing = sess[s].committing
    BY <1>1 DEF Session
  <1> HIDE DEF x
  <1>6. QED BY <1>1, <1>2, <1>3, <1>4, <1>5, SessionMoves DEF SessionLinks

(***************************************************************************)
(* The fence and the call in progress say nothing about the history.       *)
(***************************************************************************)
LEMMA FenceMoves ==
  ASSUME TypeOK, SessionLinks, StageLinks, NEW s \in Sessions, sess[s] # NoSession,
         NEW b \in BOOLEAN, NEW t \in Stages \cup {NoStage},
         sess' = [sess EXCEPT ![s].fenced = b, ![s].committing = t], stage' = stage,
         t # NoStage => stage[t] # NoStage /\ stage[t].owner = s
  PROVE  SessionTypeOK' /\ SessionLinks' /\ StageLinks'
  <1> DEFINE x == [sess[s] EXCEPT !.fenced = b, !.committing = t]
  <1>1. sess[s] \in Session
    BY DEF TypeOK
  <1>2. sess' = [sess EXCEPT ![s] = x]
    OBVIOUS
  <1>3. x \in Session /\ StillCovers(sess[s], x)
    <2>1. x \in Session
      BY <1>1, CounterAssumption DEF Session, Counter
    <2>2. sess[s].checkpoint \in Nat
      BY <1>1, CounterAssumption DEF Session, Counter
    <2>3. QED BY <1>1, <2>1, <2>2 DEF StillCovers, Session
  <1>4. SessionCoversHead(x)
    BY <1>1 DEF SessionLinks, SessionCoversHead, Session
  <1>5. x.committing = t
    BY <1>1 DEF Session
  <1> HIDE DEF x
  <1>6. QED BY <1>1, <1>2, <1>3, <1>4, <1>5, SessionMoves

LEMMA SessionOpens ==
  ASSUME TypeOK, SessionLinks, StageLinks, NEW s \in Sessions, sess[s] = NoSession,
         NEW x \in Session, sess' = [sess EXCEPT ![s] = x], stage' = stage,
         SessionCoversHead(x), x.committing = NoStage
  PROVE  SessionTypeOK' /\ SessionLinks' /\ StageLinks'
  <1>1. \A c \in Sessions : sess'[c] = IF c = s THEN x ELSE sess[c]
    BY DEF TypeOK
  <1>2. SessionTypeOK'
    BY DEF TypeOK, SessionTypeOK
  <1>3. SessionLinks'
    BY <1>1 DEF SessionLinks
  <1>4. \A t \in Stages : stage[t] # NoStage /\ stage[t].owner # NoOwner =>
           stage[t].owner \in Sessions /\ sess[stage[t].owner] # NoSession
    BY DEF TypeOK, Stage, StageLinks
  <1>5. StageLinks'
    BY <1>1, <1>4 DEF StageLinks
  <1>6. QED BY <1>2, <1>3, <1>5

LEMMA NewPreserves ==
  ASSUME TypeOK, SessionLinks, StageLinks, NEW s \in Sessions, New(s)
  PROVE  SessionTypeOK' /\ SessionLinks' /\ StageLinks'
  <1>1. PICK g \in Generations, k \in Keys :
          sess' = [sess EXCEPT ![s] =
                     [head |-> NoRecord, revision |-> 0, generation |-> g, key |-> k,
                      events |-> {}, undone |-> {}, receipts |-> {}, checkpoint |-> 0,
                      intact |-> TRUE, fenced |-> FALSE, committing |-> NoStage]]
    BY DEF New
  <1> DEFINE x == [head |-> NoRecord, revision |-> 0, generation |-> g, key |-> k,
                   events |-> {}, undone |-> {}, receipts |-> {}, checkpoint |-> 0,
                   intact |-> TRUE, fenced |-> FALSE, committing |-> NoStage]
  <1>2. 0 \in Counter
    BY CounterAssumption DEF Counter
  <1>3. x \in Session /\ SessionCoversHead(x) /\ x.committing = NoStage
    BY <1>2 DEF Session, MaybeRecord, SessionCoversHead
  <1>4. sess[s] = NoSession /\ stage' = stage
    BY DEF New
  <1> HIDE DEF x
  <1>5. QED BY <1>1, <1>3, <1>4, SessionOpens DEF x

LEMMA OpenPreserves ==
  ASSUME TypeOK, SessionLinks, StageLinks, NEW s \in Sessions, Open(s)
  PROVE  SessionTypeOK' /\ SessionLinks' /\ StageLinks'
  <1> DEFINE x == [head |-> head, revision |-> head.revision,
                   generation |-> head.generation, key |-> head.key,
                   events |-> head.events, undone |-> head.undone, receipts |-> {},
                   checkpoint |-> head.checkpoint,
                   intact |-> TRUE, fenced |-> FALSE, committing |-> NoStage]
  <1>1. head \in Record
    BY DEF Open, TypeOK, MaybeRecord
  <1>2. x \in Session
    BY <1>1 DEF Session, MaybeRecord, Record
  <1>3. head # NoRecord /\ head.checkpoint \in Nat
    BY <1>1, NoRecordAssumption, CounterAssumption DEF Record, Counter
  <1>4. SessionCoversHead(x) /\ x.committing = NoStage
    BY <1>3 DEF SessionCoversHead
  <1>5. sess[s] = NoSession /\ stage' = stage /\ sess' = [sess EXCEPT ![s] = x]
    BY DEF Open
  <1> HIDE DEF x
  <1>6. QED BY <1>2, <1>4, <1>5, SessionOpens

(***************************************************************************)
(* A dropped owner token: the stages of s belong to nobody, those of the   *)
(* other sessions are untouched.                                           *)
(***************************************************************************)
LEMMA DisownKeeps ==
  ASSUME NEW f \in [Stages -> Stage \cup {NoStage}], NEW s \in Sessions
  PROVE  /\ Disown(f, s) \in [Stages -> Stage \cup {NoStage}]
         /\ \A t \in Stages :
              /\ Disown(f, s)[t] # NoStage <=> f[t] # NoStage
              /\ f[t] # NoStage =>
                    /\ Disown(f, s)[t].owner = IF f[t].owner = s THEN NoOwner ELSE f[t].owner
                    /\ Disown(f, s)[t].base = f[t].base
                    /\ Disown(f, s)[t].candidate = f[t].candidate
                    /\ Disown(f, s)[t].reset = f[t].reset
  <1>1. ASSUME NEW t \in Stages, f[t] # NoStage
        PROVE  /\ [f[t] EXCEPT !.owner = NoOwner] \in Stage
               /\ [f[t] EXCEPT !.owner = NoOwner].owner = NoOwner
               /\ [f[t] EXCEPT !.owner = NoOwner].base = f[t].base
               /\ [f[t] EXCEPT !.owner = NoOwner].candidate = f[t].candidate
               /\ [f[t] EXCEPT !.owner = NoOwner].reset = f[t].reset
    BY <1>1 DEF Stage
  <1>2. QED BY <1>1, NoStageIsNoStage DEF Disown

LEMMA ClosePreserves ==
  ASSUME TypeOK, SessionLinks, StageLinks, NEW s \in Sessions, Close(s)
  PROVE  SessionTypeOK' /\ SessionLinks' /\ StageLinks'
  <1>1. /\ sess' = [sess EXCEPT ![s] = NoSession] /\ stage' = Disown(stage, s)
        /\ stage \in [Stages -> Stage \cup {NoStage}]
        /\ sess \in [Sessions -> Session \cup {NoSession}]
    BY DEF Close, TypeOK
  <1>2. /\ stage' \in [Stages -> Stage \cup {NoStage}]
        /\ \A t \in Stages :
              /\ stage'[t] # NoStage <=> stage[t] # NoStage
              /\ stage[t] # NoStage =>
                    /\ stage'[t].owner = IF stage[t].owner = s THEN NoOwner ELSE stage[t].owner
                    /\ stage'[t].base = stage[t].base
                    /\ stage'[t].candidate = stage[t].candidate
                    /\ stage'[t].reset = stage[t].reset
    BY <1>1, DisownKeeps
  <1>3. \A c \in Sessions : sess'[c] = IF c = s THEN NoSession ELSE sess[c]
    BY <1>1
  <1>4. SessionTypeOK'
    BY <1>1, <1>2 DEF SessionTypeOK
  <1>5. SessionLinks'
    <2>1. \A c \in Sessions : sess[c] # NoSession => sess[c].committing \in Stages \cup {NoStage}
      BY <1>1 DEF Session
    <2>2. QED BY <1>2, <1>3, <2>1 DEF SessionLinks
  <1>6. \A t \in Stages : stage[t] # NoStage => stage[t].owner \in Sessions \cup {NoOwner}
    BY <1>1 DEF Stage
  <1>7. StageLinks'
    BY <1>2, <1>3, <1>6 DEF StageLinks
  <1>8. QED BY <1>4, <1>5, <1>7

-----------------------------------------------------------------------------
(***************************************************************************)
(* A free slot receives a stage of s that follows its base.                *)
(***************************************************************************)
LEMMA StageFills ==
  ASSUME TypeOK, SessionLinks, StageLinks, NEW s \in Sessions, NEW t \in Stages,
         Ready(s), FreeSlot(t), NEW x \in Session, NEW y \in Stage,
         sess' = [sess EXCEPT ![s] = x], stage' = [stage EXCEPT ![t] = y],
         SessionCoversHead(x), StillCovers(sess[s], x), x.committing = NoStage,
         y.owner = s, Ledger!Follows(y.base, y.candidate),
         ~y.reset => SessionCoversSave(x, y.candidate)
  PROVE  SessionTypeOK' /\ SessionLinks' /\ StageLinks'
  <1>1. \A c \in Sessions : sess'[c] = IF c = s THEN x ELSE sess[c]
    BY DEF TypeOK
  <1>2. \A u \in Stages : stage'[u] = IF u = t THEN y ELSE stage[u]
    BY DEF TypeOK
  <1>3. SessionTypeOK'
    BY DEF TypeOK, SessionTypeOK
  <1>4. sess[s] # NoSession /\ sess[s] \in Session /\ x # NoSession
    BY NoSessionAssumption DEF Ready, TypeOK
  <1>5. SessionLinks'
    <2>1. \A c \in Sessions : sess[c] # NoSession =>
             sess[c].committing \in Stages \cup {NoStage} /\ sess[c].committing # t
      BY DEF TypeOK, Session, FreeSlot
    <2>2. QED BY <1>1, <1>2, <2>1 DEF SessionLinks
  <1>6. ASSUME NEW u \in Stages, stage'[u] # NoStage
        PROVE  /\ Ledger!Follows(stage'[u].base, stage'[u].candidate)
               /\ stage'[u].owner # NoOwner =>
                     /\ sess'[stage'[u].owner] # NoSession
                     /\ ~stage'[u].reset =>
                           SessionCoversSave(sess'[stage'[u].owner], stage'[u].candidate)
    <2>1. CASE u = t
      BY <1>1, <1>2, <1>4, <2>1
    <2>2. CASE u # t
      <3>1. stage'[u] = stage[u] /\ stage[u] # NoStage /\ stage[u] \in Stage
        BY <1>2, <1>6, <2>2 DEF TypeOK
      <3>2. Ledger!Follows(stage[u].base, stage[u].candidate)
        BY <3>1 DEF StageLinks
      <3>3. stage[u].owner # NoOwner => stage[u].owner \in Sessions
        BY <3>1 DEF Stage
      <3>4. CASE stage[u].owner = s
        <4>1. ~stage[u].reset => SessionCoversSave(sess[s], stage[u].candidate)
          BY <3>1, <3>4, NoOwnerAssumption DEF StageLinks
        <4>2. stage[u].candidate \in Record
          BY <3>1 DEF Stage
        <4>3. ~stage[u].reset => SessionCoversSave(x, stage[u].candidate)
          BY <1>4, <4>1, <4>2, StillCoversSaves
        <4>4. QED BY <1>1, <1>4, <3>1, <3>2, <3>4, <4>3
      <3>5. CASE stage[u].owner # s
        BY <1>1, <3>1, <3>2, <3>3, <3>5 DEF StageLinks
      <3>6. QED BY <3>4, <3>5
    <2>3. QED BY <2>1, <2>2
  <1>7. StageLinks'
    BY <1>6 DEF StageLinks
  <1>8. QED BY <1>3, <1>5, <1>7

LEMMA PreparePreserves ==
  ASSUME TypeOK, SessionLinks, StageLinks, NEW s \in Sessions, NEW t \in Stages, Prepare(s, t)
  PROVE  SessionTypeOK' /\ SessionLinks' /\ StageLinks'
  <1> DEFINE x == [sess[s] EXCEPT !.checkpoint = @ + 1]
             c == [revision |-> sess[s].revision + 1,
                   generation |-> sess[s].generation, key |-> sess[s].key,
                   checkpoint |-> sess[s].checkpoint + 1,
                   events |-> sess[s].events, undone |-> sess[s].undone]
             y == [owner |-> s, base |-> sess[s].head, reset |-> FALSE, consumed |-> FALSE,
                   candidate |-> c]
  <1>1. /\ Ready(s) /\ FreeSlot(t) /\ sess[s] # NoSession /\ sess[s] \in Session
        /\ sess[s].intact /\ sess[s].committing = NoStage
        /\ sess[s].revision < MaxU64 /\ sess[s].checkpoint < MaxU64
    BY DEF Prepare, CountersLeft, Ready, Healthy, Consistent, TypeOK
  <1>2. sess' = [sess EXCEPT ![s] = x] /\ stage' = [stage EXCEPT ![t] = y]
    BY DEF Prepare
  <1>3. /\ sess[s].revision \in Nat /\ sess[s].checkpoint \in Nat
        /\ sess[s].revision + 1 \in Counter /\ sess[s].checkpoint + 1 \in Counter
    BY <1>1, CounterAssumption DEF Session, Counter
  <1>4. x \in Session /\ x.committing = NoStage /\ StillCovers(sess[s], x)
    <2>1. x \in Session
      BY <1>1, <1>3 DEF Session
    <2>2. x.checkpoint = sess[s].checkpoint + 1
      BY <1>1 DEF Session
    <2>3. QED BY <1>1, <1>3, <2>1, <2>2 DEF StillCovers, Session
  <1>5. c \in Record
    BY <1>1, <1>3 DEF Session, Record
  <1>6. y \in Stage
    BY <1>1, <1>5 DEF Stage, Session
  <1>7. SessionCoversHead(sess[s])
    BY <1>1 DEF SessionLinks
  <1>8. sess[s].head # NoRecord => sess[s].head.checkpoint \in Nat
    BY <1>1, CounterAssumption DEF Session, MaybeRecord, Record, Counter
  <1>9. SessionCoversHead(x)
    BY <1>1, <1>3, <1>7, <1>8 DEF SessionCoversHead, Session
  <1>10. Ledger!Follows(sess[s].head, c)
    BY <1>1, <1>3, <1>7, <1>8
    DEF SessionCoversHead, Ledger!Follows, Ledger!Founds, Ledger!Extends
  <1>11. SessionCoversSave(x, c)
    BY <1>1, <1>3 DEF SessionCoversSave, Session
  <1>12. y.owner = s /\ y.base = sess[s].head /\ y.candidate = c
    OBVIOUS
  <1> HIDE DEF x, c, y
  <1>13. QED BY <1>1, <1>2, <1>4, <1>6, <1>9, <1>10, <1>11, <1>12, StageFills

LEMMA PrepareClearPreserves ==
  ASSUME TypeOK, SessionLinks, StageLinks, NEW s \in Sessions, NEW t \in Stages,
         PrepareClear(s, t)
  PROVE  SessionTypeOK' /\ SessionLinks' /\ StageLinks'
  <1> DEFINE x == [sess[s] EXCEPT !.fenced = @ \/ head # sess[s].head]
             r == IF head = NoRecord THEN 1 ELSE head.revision + 1
  <1>1. /\ Ready(s) /\ FreeSlot(t) /\ sess[s] # NoSession /\ sess[s] \in Session
        /\ sess[s].committing = NoStage /\ head \in MaybeRecord
        /\ head # NoRecord => head.revision < MaxU64
    BY DEF PrepareClear, Ready, TypeOK
  <1>2. PICK g \in Generations, k \in Keys :
          /\ TakesOver(s, g, k)
          /\ stage' = [stage EXCEPT ![t] =
                [owner |-> s, base |-> head, reset |-> TRUE, consumed |-> FALSE,
                 candidate |-> [revision |-> r, generation |-> g, key |-> k, checkpoint |-> 1,
                                events |-> {}, undone |-> {}]]]
    BY DEF PrepareClear
  <1> DEFINE c == [revision |-> r, generation |-> g, key |-> k, checkpoint |-> 1,
                   events |-> {}, undone |-> {}]
             y == [owner |-> s, base |-> head, reset |-> TRUE, consumed |-> FALSE,
                   candidate |-> c]
  <1>3. sess' = [sess EXCEPT ![s] = x] /\ stage' = [stage EXCEPT ![t] = y]
    BY <1>2 DEF PrepareClear
  <1>4. x \in Session /\ x.committing = NoStage /\ SessionCoversHead(x)
        /\ StillCovers(sess[s], x)
    <2>1. x \in Session /\ x.committing = NoStage
      BY <1>1 DEF Session
    <2>2. SessionCoversHead(x)
      BY <1>1 DEF SessionLinks, SessionCoversHead, Session
    <2>3. sess[s].checkpoint \in Nat
      BY <1>1, CounterAssumption DEF Session, Counter
    <2>4. QED BY <1>1, <2>1, <2>2, <2>3 DEF StillCovers, Session
  <1>5. r \in Counter /\ 1 \in Counter
    BY <1>1, CounterAssumption DEF MaybeRecord, Record, Counter
  <1>6. c \in Record
    BY <1>5 DEF Record
  <1>7. y \in Stage
    BY <1>1, <1>6 DEF Stage
  <1>8. Ledger!Follows(head, c)
    BY <1>2 DEF Ledger!Follows, Ledger!Founds, Ledger!Clears, TakesOver
  <1>9. y.owner = s /\ y.base = head /\ y.candidate = c /\ y.reset
    OBVIOUS
  <1> HIDE DEF x, c, y
  <1>10. QED BY <1>1, <1>3, <1>4, <1>7, <1>8, <1>9, StageFills

-----------------------------------------------------------------------------
(***************************************************************************)
(* Adopting a selected stage: a save keeps a core that covers it, a reset  *)
(* replaces the core and lets go of every other stage of the session.      *)
(***************************************************************************)
LEMMA AdoptedSessionCovers ==
  ASSUME TypeOK, SessionLinks, StageLinks, NEW s \in Sessions, NEW t \in Stages,
         stage[t] # NoStage, stage[t].owner = s, sess[s] # NoSession
  PROVE  /\ AdoptedSession(s, t) \in Session
         /\ AdoptedSession(s, t).committing = NoStage
         /\ SessionCoversHead(AdoptedSession(s, t))
         /\ ~stage[t].reset => StillCovers(sess[s], AdoptedSession(s, t))
  <1> DEFINE c == stage[t].candidate
             settled == [sess[s] EXCEPT !.head = c, !.revision = c.revision,
                                        !.fenced = FALSE, !.committing = NoStage]
             cleared == [settled EXCEPT !.generation = c.generation, !.key = c.key,
                                        !.events = c.events, !.undone = c.undone,
                                        !.receipts = {}, !.checkpoint = c.checkpoint]
  <1>1. sess[s] \in Session /\ stage[t] \in Stage /\ c \in Record /\ c # NoRecord
    BY NoRecordAssumption DEF TypeOK, Stage
  <1>2. AdoptedSession(s, t) = IF stage[t].reset THEN cleared ELSE settled
    BY DEF AdoptedSession, Settled
  <1>3. sess[s].checkpoint \in Nat /\ c.checkpoint \in Nat
    BY <1>1, CounterAssumption DEF Session, Record, Counter
  <1> HIDE DEF c
  <1>4. settled \in Session
    BY <1>1 DEF Session, Record, MaybeRecord
  <1>5. /\ settled.head = c /\ settled.revision = c.revision
        /\ settled.committing = NoStage /\ settled.intact = sess[s].intact
        /\ settled.generation = sess[s].generation /\ settled.key = sess[s].key
        /\ settled.checkpoint = sess[s].checkpoint
        /\ settled.events = sess[s].events /\ settled.undone = sess[s].undone
    BY <1>1 DEF Session
  <1>6. CASE stage[t].reset
    <2> HIDE DEF settled
    <2>1. cleared \in Session
      BY <1>1, <1>4 DEF Session, Record
    <2>2. /\ cleared.head = c /\ cleared.revision = c.revision
          /\ cleared.committing = NoStage
          /\ cleared.generation = c.generation /\ cleared.key = c.key
          /\ cleared.checkpoint = c.checkpoint
          /\ cleared.events = c.events /\ cleared.undone = c.undone
      BY <1>4, <1>5 DEF Session
    <2> HIDE DEF cleared
    <2>3. SessionCoversHead(cleared)
      BY <1>1, <1>3, <2>2 DEF SessionCoversHead
    <2>4. QED BY <1>2, <1>6, <2>1, <2>2, <2>3
  <1>7. CASE ~stage[t].reset
    <2>1. SessionCoversSave(sess[s], c)
      BY <1>7, NoOwnerAssumption DEF StageLinks, c
    <2> HIDE DEF settled
    <2>2. SessionCoversHead(settled)
      BY <1>1, <1>3, <1>5, <2>1 DEF SessionCoversHead, SessionCoversSave
    <2>3. settled.intact => sess[s].intact
      BY <1>5
    <2>4. StillCovers(sess[s], settled)
      BY <1>3, <1>5 DEF StillCovers
    <2>5. AdoptedSession(s, t) = settled
      BY <1>2, <1>7
    <2> HIDE DEF cleared
    <2>6. QED BY <1>4, <1>5, <1>7, <2>2, <2>4, <2>5
  <1>8. QED BY <1>6, <1>7

LEMMA SpentStage ==
  ASSUME NEW f \in [Stages -> Stage \cup {NoStage}], NEW t \in Stages, f[t] # NoStage
  PROVE  /\ [f EXCEPT ![t].consumed = TRUE] \in [Stages -> Stage \cup {NoStage}]
         /\ \A u \in Stages :
              /\ [f EXCEPT ![t].consumed = TRUE][u] # NoStage <=> f[u] # NoStage
              /\ [f EXCEPT ![t].consumed = TRUE][u].owner = f[u].owner
              /\ [f EXCEPT ![t].consumed = TRUE][u].base = f[u].base
              /\ [f EXCEPT ![t].consumed = TRUE][u].candidate = f[u].candidate
              /\ [f EXCEPT ![t].consumed = TRUE][u].reset = f[u].reset
  <1> DEFINE y == [f[t] EXCEPT !.consumed = TRUE]
             g == [f EXCEPT ![t].consumed = TRUE]
  <1>1. /\ y \in Stage /\ y.owner = f[t].owner /\ y.base = f[t].base
        /\ y.candidate = f[t].candidate /\ y.reset = f[t].reset
    BY DEF Stage
  <1>2. g = [f EXCEPT ![t] = y]
    OBVIOUS
  <1> HIDE DEF y
  <1>3. g \in [Stages -> Stage \cup {NoStage}] /\ \A u \in Stages : g[u] = IF u = t THEN y ELSE f[u]
    BY <1>1, <1>2
  <1> HIDE DEF g
  <1>4. QED BY <1>1, <1>3, NoStageIsNoStage DEF g

LEMMA AdoptPreserves ==
  ASSUME TypeOK, SessionLinks, StageLinks, NEW s \in Sessions, NEW t \in Stages,
         stage[t] # NoStage, stage[t].owner = s, sess[s] # NoSession, Adopt(s, t)
  PROVE  SessionTypeOK' /\ SessionLinks' /\ StageLinks'
  <1> DEFINE x == AdoptedSession(s, t)
             spent == [stage EXCEPT ![t].consumed = TRUE]
  <1>1. /\ x \in Session /\ x.committing = NoStage /\ SessionCoversHead(x)
        /\ ~stage[t].reset => StillCovers(sess[s], x)
    BY AdoptedSessionCovers
  <1>2. /\ stage \in [Stages -> Stage \cup {NoStage}]
        /\ sess \in [Sessions -> Session \cup {NoSession}]
    BY DEF TypeOK
  <1>3. /\ spent \in [Stages -> Stage \cup {NoStage}]
        /\ \A u \in Stages : /\ spent[u] # NoStage <=> stage[u] # NoStage
                             /\ spent[u].owner = stage[u].owner
                             /\ spent[u].base = stage[u].base
                             /\ spent[u].candidate = stage[u].candidate
                             /\ spent[u].reset = stage[u].reset
    BY <1>2, SpentStage
  <1>4. sess' = [sess EXCEPT ![s] = x] /\ stage' = IF stage[t].reset THEN Disown(spent, s) ELSE spent
    BY DEF Adopt
  <1> HIDE DEF x, spent
  <1>5. /\ stage' \in [Stages -> Stage \cup {NoStage}]
        /\ \A u \in Stages :
              /\ stage'[u] # NoStage <=> stage[u] # NoStage
              /\ stage[u] # NoStage =>
                    /\ stage'[u].owner = IF stage[t].reset /\ stage[u].owner = s
                                         THEN NoOwner ELSE stage[u].owner
                    /\ stage'[u].base = stage[u].base
                    /\ stage'[u].candidate = stage[u].candidate
                    /\ stage'[u].reset = stage[u].reset
    BY <1>3, <1>4, DisownKeeps
  <1>6. \A c \in Sessions : sess'[c] = IF c = s THEN x ELSE sess[c]
    BY <1>2, <1>4
  <1>7. SessionTypeOK'
    BY <1>1, <1>2, <1>4, <1>5 DEF SessionTypeOK
  <1>8. SessionLinks'
    <2>1. \A c \in Sessions : sess[c] # NoSession => sess[c].committing \in Stages \cup {NoStage}
      BY <1>2 DEF Session
    <2>2. QED BY <1>1, <1>5, <1>6, <2>1 DEF SessionLinks
  <1>9. ASSUME NEW u \in Stages, stage'[u] # NoStage
        PROVE  /\ Ledger!Follows(stage'[u].base, stage'[u].candidate)
               /\ stage'[u].owner # NoOwner =>
                     /\ sess'[stage'[u].owner] # NoSession
                     /\ ~stage'[u].reset =>
                           SessionCoversSave(sess'[stage'[u].owner], stage'[u].candidate)
    <2>1. /\ stage[u] # NoStage /\ stage[u] \in Stage
          /\ stage[u].owner \in Sessions \cup {NoOwner} /\ stage[u].candidate \in Record
      BY <1>2, <1>5, <1>9 DEF Stage
    <2>2. Ledger!Follows(stage'[u].base, stage'[u].candidate)
      BY <1>5, <2>1 DEF StageLinks
    <2>3. CASE stage[u].owner = s /\ ~stage[t].reset
      <3>1. sess[s] \in Session /\ x # NoSession
        BY <1>1, <1>2, NoSessionAssumption
      <3>2. ~stage[u].reset => SessionCoversSave(sess[s], stage[u].candidate)
        BY <2>1, <2>3, NoOwnerAssumption DEF StageLinks
      <3>3. ~stage[u].reset => SessionCoversSave(x, stage[u].candidate)
        BY <1>1, <2>1, <2>3, <3>1, <3>2, StillCoversSaves
      <3>4. QED BY <1>5, <1>6, <2>1, <2>2, <2>3, <3>1, <3>3
    <2>4. CASE stage[u].owner = s /\ stage[t].reset
      BY <1>5, <2>1, <2>2, <2>4
    <2>5. CASE stage[u].owner # s
      BY <1>5, <1>6, <2>1, <2>2, <2>5 DEF StageLinks
    <2>6. QED BY <2>3, <2>4, <2>5
  <1>10. StageLinks'
    BY <1>9 DEF StageLinks
  <1>11. QED BY <1>7, <1>8, <1>10

-----------------------------------------------------------------------------
HistoryTypeOK ==
    /\ consent \in ConsentLevels
    /\ acceptedIn \in [Feedback -> SUBSET Generations]
    /\ published \in [Sessions -> Counter]

LEMMA RegisterStutters ==
  ASSUME TypeOK, PublicationLinks, UNCHANGED regVars
  PROVE  RegisterTypeOK' /\ PublicationLinks'
  BY DEF TypeOK, RegisterTypeOK, PublicationLinks, regVars

LEMMA CommitPreserves ==
  ASSUME Inv, NEW s \in Sessions, NEW t \in Stages, Commit(s, t)
  PROVE  Inv'
  <1> USE DEF Inv, Links
  <1>1. /\ sess[s] # NoSession /\ stage[t] # NoStage /\ stage[t].owner = s
        /\ Register!Invoke(s, stage[t].base, stage[t].candidate)
        /\ sess' = [sess EXCEPT ![s].fenced = TRUE, ![s].committing = t]
        /\ UNCHANGED <<stage, consent, acceptedIn, published>>
    BY DEF Commit, CheckStage, Ready
  <1>2. /\ stage[t].base \in MaybeRecord /\ stage[t].candidate \in Record
        /\ Ledger!Follows(stage[t].base, stage[t].candidate)
    BY <1>1 DEF TypeOK, Stage, StageLinks
  <1>3. RegisterTypeOK' /\ PublicationLinks'
    BY <1>1, <1>2, InvokePreserves
  <1>4. SessionTypeOK' /\ SessionLinks' /\ StageLinks'
    BY <1>1, FenceMoves
  <1>5. QED BY <1>1, <1>3, <1>4 DEF TypeOK, RegisterTypeOK, SessionTypeOK

LEMMA CommitReturnPreserves ==
  ASSUME Inv, NEW s \in Sessions, CommitReturn(s)
  PROVE  Inv'
  <1> USE DEF Inv, Links
  <1> DEFINE t == sess[s].committing
  <1>1. /\ sess[s] # NoSession /\ t # NoStage
        /\ UNCHANGED <<consent, acceptedIn, published>>
    BY DEF CommitReturn
  <1>2. t \in Stages /\ stage[t] # NoStage /\ stage[t].owner = s
    BY <1>1 DEF TypeOK, Session, SessionLinks
  <1>3. CASE CommitApplied(s, t)
    <2>1. RegisterTypeOK' /\ PublicationLinks'
      BY <1>3, AnswerPreserves DEF CommitApplied
    <2>2. SessionTypeOK' /\ SessionLinks' /\ StageLinks'
      BY <1>1, <1>2, <1>3, AdoptPreserves DEF CommitApplied
    <2>3. QED BY <1>1, <2>1, <2>2 DEF TypeOK, RegisterTypeOK, SessionTypeOK
  <1>4. CASE CommitNotCommitted(s, t)
    <2>1. RegisterTypeOK' /\ PublicationLinks'
      BY <1>4, AnswerPreserves DEF CommitNotCommitted
    <2>2. SessionTypeOK' /\ SessionLinks' /\ StageLinks'
      BY <1>1, <1>4, FenceMoves DEF CommitNotCommitted, RecoveryRequired
    <2>3. QED BY <1>1, <2>1, <2>2 DEF TypeOK, RegisterTypeOK, SessionTypeOK
  <1>5. CASE CommitDoubtful(s, t)
    <2>1. RegisterTypeOK' /\ PublicationLinks'
      BY <1>5, AnswerPreserves DEF CommitDoubtful
    <2>2. SessionTypeOK' /\ SessionLinks' /\ StageLinks'
      BY <1>1, <1>5, FenceMoves DEF CommitDoubtful, RecoveryRequired
    <2>3. QED BY <1>1, <2>1, <2>2 DEF TypeOK, RegisterTypeOK, SessionTypeOK
  <1>6. QED BY <1>3, <1>4, <1>5 DEF CommitReturn

LEMMA ReconcilePreserves ==
  ASSUME Inv, NEW s \in Sessions, NEW t \in Stages, Reconcile(s, t)
  PROVE  Inv'
  <1> USE DEF Inv, Links
  <1>1. /\ sess[s] # NoSession /\ stage[t] # NoStage /\ stage[t].owner = s
        /\ sess[s] \in Session /\ sess[s].committing = NoStage
        /\ UNCHANGED <<regVars, consent, acceptedIn, published>>
    BY DEF Reconcile, CheckStage, Ready, TypeOK
  <1>2. RegisterTypeOK' /\ PublicationLinks'
    BY <1>1, RegisterStutters
  <1>3. ASSUME NEW b \in BOOLEAN, sess' = [sess EXCEPT ![s].fenced = b], stage' = stage
        PROVE  SessionTypeOK' /\ SessionLinks' /\ StageLinks'
    <2>1. [sess[s] EXCEPT !.fenced = b] = [sess[s] EXCEPT !.fenced = b, !.committing = NoStage]
      BY <1>1 DEF Session
    <2>2. sess' = [sess EXCEPT ![s].fenced = b, ![s].committing = NoStage]
      BY <1>3, <2>1
    <2>3. QED BY <1>1, <1>3, <2>2, FenceMoves
  <1>4. CASE ReconcileApplied(s, t)
    <2>1. SessionTypeOK' /\ SessionLinks' /\ StageLinks'
      BY <1>1, <1>4, AdoptPreserves DEF ReconcileApplied
    <2>2. QED BY <1>1, <1>2, <2>1 DEF TypeOK, RegisterTypeOK, SessionTypeOK
  <1>5. CASE ReconcileUnchanged(s, t) \/ ReconcileConflict(s, t)
    <2>1. SessionTypeOK' /\ SessionLinks' /\ StageLinks'
      BY <1>3, <1>5 DEF ReconcileUnchanged, ReconcileConflict, RecoveryRequired
    <2>2. QED BY <1>1, <1>2, <2>1 DEF TypeOK, RegisterTypeOK, SessionTypeOK
  <1>6. QED BY <1>4, <1>5 DEF Reconcile

LEMMA ClearFindsNothingPreserves ==
  ASSUME Inv, NEW s \in Sessions, ClearFindsNothing(s)
  PROVE  Inv'
  <1> USE DEF Inv, Links
  <1>1. /\ sess[s] # NoSession /\ sess[s] \in Session /\ sess[s].committing = NoStage
        /\ sess' = [sess EXCEPT ![s].fenced = TRUE]
        /\ UNCHANGED <<regVars, stage, consent, acceptedIn, published>>
    BY DEF ClearFindsNothing, Ready, TypeOK
  <1>2. [sess[s] EXCEPT !.fenced = TRUE] = [sess[s] EXCEPT !.fenced = TRUE, !.committing = NoStage]
    BY <1>1 DEF Session
  <1>3. sess' = [sess EXCEPT ![s].fenced = TRUE, ![s].committing = NoStage]
    BY <1>1, <1>2
  <1>4. SessionTypeOK' /\ SessionLinks' /\ StageLinks'
    BY <1>1, <1>3, FenceMoves
  <1>5. RegisterTypeOK' /\ PublicationLinks'
    BY <1>1, RegisterStutters
  <1>6. QED BY <1>1, <1>4, <1>5 DEF TypeOK, RegisterTypeOK, SessionTypeOK

(***************************************************************************)
(* The other calls of the host, one step per action.                       *)
(***************************************************************************)
LEMMA HostPreserves ==
  ASSUME Inv, NEW s \in Sessions, Host(s)
  PROVE  Inv'
  <1> USE DEF Inv, Links
  <1>1. ASSUME SessionTypeOK', SessionLinks', StageLinks', UNCHANGED regVars, HistoryTypeOK'
        PROVE  Inv'
    BY <1>1, RegisterStutters DEF TypeOK, RegisterTypeOK, SessionTypeOK, HistoryTypeOK
  <1>2. UNCHANGED <<consent, acceptedIn, published>> => HistoryTypeOK'
    BY DEF TypeOK, HistoryTypeOK
  <1>3. CASE New(s)
    BY <1>1, <1>2, <1>3, NewPreserves DEF New
  <1>4. CASE Open(s)
    BY <1>1, <1>2, <1>4, OpenPreserves DEF Open
  <1>5. CASE Close(s)
    <2>1. HistoryTypeOK'
      BY <1>5, CounterAssumption DEF Close, TypeOK, HistoryTypeOK, Counter
    <2>2. SessionTypeOK' /\ SessionLinks' /\ StageLinks'
      BY <1>5, ClosePreserves
    <2>3. RegisterTypeOK' /\ PublicationLinks'
      BY <1>5, KillPreserves DEF Close
    <2>4. QED BY <2>1, <2>2, <2>3 DEF TypeOK, RegisterTypeOK, SessionTypeOK, HistoryTypeOK
  <1>6. ASSUME NEW f \in Feedback, Accept(s, f)
        PROVE  Inv'
    <2>1. sess[s].generation \in Generations
      BY <1>6 DEF Accept, Ready, TypeOK, Session
    <2>2. HistoryTypeOK'
      BY <1>6, <2>1 DEF Accept, TypeOK, HistoryTypeOK
    <2>3. SessionTypeOK' /\ SessionLinks' /\ StageLinks'
      BY <1>6, AcceptPreserves
    <2>4. QED BY <1>1, <1>6, <2>2, <2>3 DEF Accept
  <1>7. ASSUME NEW f \in Feedback, Undo(s, f)
        PROVE  Inv'
    BY <1>1, <1>2, <1>7, UndoPreserves DEF Undo
  <1>8. CASE ReplaceCore(s)
    BY <1>1, <1>2, <1>8, ReplaceCorePreserves DEF ReplaceCore
  <1>9. ASSUME NEW t \in Stages, Prepare(s, t)
        PROVE  Inv'
    BY <1>1, <1>2, <1>9, PreparePreserves DEF Prepare
  <1>10. ASSUME NEW t \in Stages, PrepareClear(s, t)
         PROVE  Inv'
    BY <1>1, <1>2, <1>10, PrepareClearPreserves DEF PrepareClear
  <1>11. QED
    BY <1>3, <1>4, <1>5, <1>6, <1>7, <1>8, <1>9, <1>10, CommitPreserves,
       ReconcilePreserves, ClearFindsNothingPreserves, CommitReturnPreserves DEF Host

LEMMA ProviderPreserves ==
  ASSUME Inv, SelectRecord \/ Provider
  PROVE  Inv'
  <1> USE DEF Inv, Links
  <1>1. stage' = stage /\ sess' = sess
    BY DEF SelectRecord, Provider
  <1>2. SessionTypeOK' /\ SessionLinks' /\ StageLinks'
    BY <1>1 DEF TypeOK, SessionTypeOK, SessionLinks, StageLinks
  <1>3. RegisterTypeOK' /\ PublicationLinks'
    BY EnterPreserves, SelectPreserves, SettlePreserves, VanishPreserves
    DEF SelectRecord, Provider
  <1>4. HistoryTypeOK'
    <2>1. CASE Provider
      BY <2>1 DEF Provider, TypeOK, HistoryTypeOK
    <2>2. CASE SelectRecord
      <3>1. write # NoWrite => write.by \in Sessions \cup {NoOwner}
                               /\ write.candidate.revision \in Counter
        BY DEF TypeOK, Write, Record
      <3>2. QED BY <2>2, <3>1
                DEF SelectRecord, Register!Select, TypeOK, HistoryTypeOK
    <2>3. QED BY <2>1, <2>2
  <1>5. QED BY <1>2, <1>3, <1>4 DEF TypeOK, RegisterTypeOK, SessionTypeOK, HistoryTypeOK

LEMMA InitEstablishes == Init => Inv
  <1> SUFFICES ASSUME Init PROVE Inv
    OBVIOUS
  <1>1. Register!IdleCall \in Call /\ Register!IdleCall.phase = "idle"
    BY DEF Register!IdleCall, Call, Register!Phases, MaybeRecord
  <1>2. 0 \in Counter
    BY CounterAssumption DEF Counter
  <1>3. TypeOK
    BY <1>1, <1>2 DEF Init, Register!RegInit, TypeOK, MaybeRecord
  <1>4. Links
    BY <1>1 DEF Init, Register!RegInit, Links, SessionLinks, StageLinks, PublicationLinks
  <1>5. QED BY <1>3, <1>4 DEF Inv

LEMMA NextPreserves == Inv /\ [Next]_vars => Inv'
  <1> SUFFICES ASSUME Inv, [Next]_vars PROVE Inv'
    OBVIOUS
  <1>1. CASE UNCHANGED vars
    <2>1. UNCHANGED <<head, write, call, sess, stage, consent, acceptedIn, published>>
      BY <1>1 DEF vars
    <2>2. TypeOK' /\ SessionLinks' /\ StageLinks' /\ PublicationLinks'
      BY <2>1 DEF Inv, Links, TypeOK, SessionLinks, StageLinks, PublicationLinks
    <2>3. QED BY <2>2 DEF Inv, Links
  <1>2. ASSUME NEW s \in Sessions, Host(s)
        PROVE  Inv'
    BY <1>2, HostPreserves
  <1>3. ASSUME NEW c \in ConsentLevels, SetConsent(c)
        PROVE  Inv'
    <2>1. UNCHANGED <<head, write, call, sess, stage, acceptedIn, published>>
          /\ consent' \in ConsentLevels
      BY <1>3 DEF SetConsent, regVars
    <2>2. TypeOK' /\ SessionLinks' /\ StageLinks' /\ PublicationLinks'
      BY <2>1 DEF Inv, Links, TypeOK, SessionLinks, StageLinks, PublicationLinks
    <2>3. QED BY <2>2 DEF Inv, Links
  <1>4. CASE SelectRecord \/ Provider
    BY <1>4, ProviderPreserves
  <1>5. QED BY <1>1, <1>2, <1>3, <1>4 DEF Next

(***************************************************************************)
(* In every reachable state the state is well typed and every publication  *)
(* anywhere in the system follows the record it expects: whatever sessions *)
(* stage, commit, reconcile, clear or die (formula_preference_transactions *)
(* prepare, prepare_clear, adopt).                                         *)
(***************************************************************************)
THEOREM PublicationsFollow == Spec => [](TypeOK /\ Links)
  <1>1. Init => Inv
    BY InitEstablishes
  <1>2. Inv /\ [Next]_vars => Inv'
    BY NextPreserves
  <1>3. Inv <=> TypeOK /\ Links
    BY DEF Inv
  <1>4. QED BY <1>1, <1>2, <1>3, PTL DEF Spec

(***************************************************************************)
(* The variables keep the types the code gives them; no u64 counter passes *)
(* its last value (the checked additions of prepare and prepare_clear).    *)
(***************************************************************************)
THEOREM Types == Spec => []TypeOK
  <1>1. TypeOK /\ Links => TypeOK
    OBVIOUS
  <1>2. QED BY <1>1, PublicationsFollow, PTL

(***************************************************************************)
(* The register's head is moved by a selection or by the loss of the root. *)
(***************************************************************************)
LEMMA HeadMoves ==
  ASSUME Inv, Next, head' # head
  PROVE  Register!Select \/ Register!Vanish
  <1>1. ASSUME NEW s \in Sessions, Host(s)
        PROVE  head' = head
    <2>1. CASE \/ New(s) \/ Open(s) \/ ReplaceCore(s) \/ ClearFindsNothing(s)
               \/ \E f \in Feedback : Accept(s, f) \/ Undo(s, f)
      BY <2>1 DEF New, Open, ReplaceCore, ClearFindsNothing, Accept, Undo, regVars
    <2>2. CASE \E t \in Stages : Prepare(s, t) \/ PrepareClear(s, t) \/ Reconcile(s, t)
      BY <2>2 DEF Prepare, PrepareClear, Reconcile, regVars
    <2>3. CASE Close(s) \/ \E t \in Stages : Commit(s, t)
      BY <2>3 DEF Close, Register!Kill, Commit, Register!Invoke
    <2>4. CASE CommitReturn(s)
      BY <2>4 DEF CommitReturn, CommitApplied, CommitNotCommitted, CommitDoubtful,
                  Register!Answer
    <2>5. QED BY <1>1, <2>1, <2>2, <2>3, <2>4 DEF Host
  <1>2. ASSUME NEW c \in ConsentLevels, SetConsent(c)
        PROVE  head' = head
    BY <1>2 DEF SetConsent, regVars
  <1>3. SelectRecord => Register!Select
    BY DEF SelectRecord
  <1>4. CASE Provider
    BY <1>4 DEF Provider, Register!Enter, Register!Settle
  <1>5. QED BY <1>1, <1>2, <1>3, <1>4 DEF Next

(***************************************************************************)
(* The protected register implements the ledger for its owner: each record *)
(* the register ever selects founds, extends or clears the one before it,  *)
(* for any number of sessions, any retries, deaths and late writes.        *)
(***************************************************************************)
LEMMA StepFollowsLedger == Inv /\ [Next]_vars => [Ledger!Next]_head
  <1> SUFFICES ASSUME Inv, Next, head' # head PROVE Ledger!Next
    BY DEF vars
  <1>1. Register!Select \/ Register!Vanish
    BY HeadMoves
  <1>2. CASE Register!Select
    <2>1. write # NoWrite /\ head = write.expected /\ head' = write.candidate
      BY <1>2 DEF Register!Select, Register!Compares
    <2>2. head' # NoRecord
      BY <2>1, NoRecordAssumption DEF Inv, TypeOK, Write
    <2>3. Ledger!Follows(head, head')
      BY <2>1 DEF Inv, Links, PublicationLinks
    <2>4. QED BY <2>2, <2>3 DEF Ledger!Next, Ledger!Publish
  <1>3. CASE Register!Vanish
    BY <1>3 DEF Register!Vanish, Ledger!Next, Ledger!Lose
  <1>4. QED BY <1>1, <1>2, <1>3

THEOREM LedgerImplemented == Spec => LedgerSpec
  <1>1. Init => Ledger!Init
    BY DEF Init, Register!RegInit, Ledger!Init
  <1>2. Inv /\ [Next]_vars => [Ledger!Next]_head
    BY StepFollowsLedger
  <1>3. Init => Inv
    BY InitEstablishes
  <1>4. Inv /\ [Next]_vars => Inv'
    BY NextPreserves
  <1>5. QED BY <1>1, <1>2, <1>3, <1>4, PTL DEF Spec, LedgerSpec, Ledger!Spec
-----------------------------------------------------------------------------
(***************************************************************************)
(* Where history is: whatever holds acceptances (the register, a record on *)
(* its way to it, a stage, a session) holds those of its own generation.   *)
(***************************************************************************)
Proven(r) == \A f \in r.events : acceptedIn[f] = {r.generation}

RegisterProven ==
    /\ head # NoRecord => Proven(head)
    /\ write # NoWrite => Proven(write.candidate)
    /\ \A c \in Sessions : call[c].phase # "idle" => Proven(call[c].candidate)

StagesProven == \A t \in Stages : stage[t] # NoStage => Proven(stage[t].candidate)

SessionsProven == \A s \in Sessions : sess[s] # NoSession => Proven(sess[s])

Provenance == RegisterProven /\ StagesProven /\ SessionsProven

LEMMA CallsStopProven ==
  ASSUME TypeOK, RegisterProven, acceptedIn' = acceptedIn, NEW s \in Sessions,
         head' = head, call' = [call EXCEPT ![s] = Register!IdleCall],
         \/ write' = write
         \/ write # NoWrite /\ (write' = NoWrite \/ write'.candidate = write.candidate)
  PROVE  RegisterProven'
  <1>1. Register!IdleCall.phase = "idle"
    BY DEF Register!IdleCall
  <1>2. \A c \in Sessions : call'[c].phase # "idle" => call'[c] = call[c]
    BY <1>1 DEF TypeOK
  <1>3. QED BY <1>2 DEF RegisterProven, Proven

LEMMA RegisterStepsProven ==
  ASSUME Inv, RegisterProven, acceptedIn' = acceptedIn
  PROVE  /\ UNCHANGED regVars => RegisterProven'
         /\ Register!Select \/ Register!Settle \/ Register!Vanish => RegisterProven'
         /\ \A s \in Sessions : Register!Enter(s) \/ Register!Kill(s) => RegisterProven'
         /\ \A s \in Sessions : \A o : Register!Answer(s, o) => RegisterProven'
  <1> USE DEF Inv, Links
  <1>1. UNCHANGED regVars => RegisterProven'
    BY DEF regVars, RegisterProven, Proven
  <1>2. CASE Register!Select
    <2>1. /\ write # NoWrite /\ call' = call /\ head' = write.candidate
          /\ write' = [write EXCEPT !.selected = TRUE]
      BY <1>2 DEF Register!Select
    <2>2. write'.candidate = write.candidate
      BY <2>1 DEF TypeOK, Write
    <2>3. QED BY <2>1, <2>2 DEF RegisterProven, Proven
  <1>3. Register!Settle \/ Register!Vanish => RegisterProven'
    BY DEF Register!Settle, Register!Vanish, RegisterProven, Proven
  <1>4. ASSUME NEW s \in Sessions, Register!Enter(s)
        PROVE  RegisterProven'
    <2>1. /\ call[s].phase # "idle" /\ head' = head
          /\ call' = [call EXCEPT ![s].phase = "inside"]
          /\ write' = [by |-> s, expected |-> call[s].expected,
                       candidate |-> call[s].candidate, selected |-> FALSE]
      BY <1>4 DEF Register!Enter
    <2>2. \A c \in Sessions : call'[c].phase # "idle" =>
             call[c].phase # "idle" /\ call'[c].candidate = call[c].candidate
      BY <2>1 DEF TypeOK, Call
    <2>3. write'.candidate = call[s].candidate
      BY <2>1
    <2>4. QED BY <2>1, <2>2, <2>3 DEF RegisterProven, Proven
  <1>5. ASSUME NEW b \in Sessions \cup {NoOwner}, write # NoWrite, Register!LeaveBoundary(b)
        PROVE  write' = NoWrite \/ write'.candidate = write.candidate
    BY <1>5, LeaveBoundaryKeepsWrite
  <1>6. ASSUME NEW s \in Sessions, Register!Kill(s)
        PROVE  RegisterProven'
    <2>1. head' = head /\ call' = [call EXCEPT ![s] = Register!IdleCall]
      BY <1>6 DEF Register!Kill
    <2>2. \/ write' = write
          \/ write # NoWrite /\ (write' = NoWrite \/ write'.candidate = write.candidate)
      BY <1>5, <1>6 DEF Register!Kill
    <2>3. QED BY <2>1, <2>2, CallsStopProven
  <1>7. ASSUME NEW s \in Sessions, NEW o, Register!Answer(s, o)
        PROVE  RegisterProven'
    <2>1. head' = head /\ call' = [call EXCEPT ![s] = Register!IdleCall]
      BY <1>7 DEF Register!Answer
    <2>2. \/ write' = write
          \/ write # NoWrite /\ (write' = NoWrite \/ Register!LeaveBoundary(s))
      BY <1>7 DEF Register!Answer, Register!AnswerOutside, Register!AnswerInside,
                  PublicationLinks
    <2>3. \/ write' = write
          \/ write # NoWrite /\ (write' = NoWrite \/ write'.candidate = write.candidate)
      BY <1>5, <2>2
    <2>4. QED BY <2>1, <2>3, CallsStopProven
  <1>8. QED BY <1>1, <1>2, <1>3, <1>4, <1>6, <1>7

LEMMA SessionMovesProven ==
  ASSUME TypeOK, SessionsProven, acceptedIn' = acceptedIn, NEW s \in Sessions, NEW x,
         sess' = [sess EXCEPT ![s] = x], x # NoSession => Proven(x)
  PROVE  SessionsProven'
  <1>1. \A c \in Sessions : sess'[c] = IF c = s THEN x ELSE sess[c]
    BY DEF TypeOK
  <1>2. QED BY <1>1 DEF SessionsProven, Proven

LEMMA StageFillsProven ==
  ASSUME TypeOK, StagesProven, acceptedIn' = acceptedIn, NEW t \in Stages, NEW y,
         stage' = [stage EXCEPT ![t] = y], Proven(y.candidate)
  PROVE  StagesProven'
  <1>1. \A u \in Stages : stage'[u] = IF u = t THEN y ELSE stage[u]
    BY DEF TypeOK
  <1>2. QED BY <1>1 DEF StagesProven, Proven

LEMMA SameHistoryProven ==
  ASSUME TypeOK, SessionsProven, acceptedIn' = acceptedIn, NEW s \in Sessions, NEW x,
         sess[s] # NoSession, sess' = [sess EXCEPT ![s] = x],
         x.events = sess[s].events, x.generation = sess[s].generation
  PROVE  SessionsProven'
  <1>1. Proven(x)
    BY DEF SessionsProven, Proven
  <1>2. QED BY <1>1, SessionMovesProven

LEMMA SameStagesProven ==
  ASSUME StagesProven, acceptedIn' = acceptedIn, stage' = stage
  PROVE  StagesProven'
  BY DEF StagesProven, Proven

LEMMA SameSessionsProven ==
  ASSUME SessionsProven, acceptedIn' = acceptedIn, sess' = sess
  PROVE  SessionsProven'
  BY DEF SessionsProven, Proven

LEMMA KeptCandidatesProven ==
  ASSUME StagesProven, acceptedIn' = acceptedIn,
         \A t \in Stages : stage'[t] # NoStage =>
            stage[t] # NoStage /\ stage'[t].candidate = stage[t].candidate
  PROVE  StagesProven'
  BY DEF StagesProven, Proven

(***************************************************************************)
(* The host's calls, one lemma for those that need an argument.            *)
(***************************************************************************)
LEMMA AcceptProven ==
  ASSUME Inv, Provenance, NEW s \in Sessions, NEW f \in Feedback, Accept(s, f)
  PROVE  Provenance'
  <1>1. /\ sess[s] # NoSession /\ sess[s] \in Session
        /\ acceptedIn[f] = {}
        /\ acceptedIn \in [Feedback -> SUBSET Generations]
        /\ acceptedIn' = [acceptedIn EXCEPT ![f] = {sess[s].generation}]
        /\ UNCHANGED <<head, write, call, stage>>
    BY DEF Accept, Ready, Inv, TypeOK, regVars
  <1>2. \A g \in Feedback : acceptedIn'[g] = IF g = f THEN {sess[s].generation} ELSE acceptedIn[g]
    BY <1>1
  <1>3. ASSUME NEW r, r.events \subseteq Feedback, Proven(r)
        PROVE  \A g \in r.events : acceptedIn'[g] = {r.generation}
    BY <1>1, <1>2, <1>3 DEF Proven
  <1>4. RegisterProven'
    <2>1. /\ head # NoRecord => head.events \subseteq Feedback /\ Proven(head)
          /\ write # NoWrite =>
                write.candidate.events \subseteq Feedback /\ Proven(write.candidate)
      BY DEF Inv, TypeOK, MaybeRecord, Write, Record, Provenance, RegisterProven
    <2>2. \A c \in Sessions : call[c].phase # "idle" =>
             call[c].candidate.events \subseteq Feedback /\ Proven(call[c].candidate)
      BY DEF Inv, Links, PublicationLinks, Record, Provenance, RegisterProven
    <2>3. QED BY <1>1, <1>3, <2>1, <2>2 DEF RegisterProven, Proven
  <1>5. StagesProven'
    <2>1. \A t \in Stages : stage[t] # NoStage =>
             stage[t].candidate.events \subseteq Feedback /\ Proven(stage[t].candidate)
      BY DEF Inv, TypeOK, Stage, Record, Provenance, StagesProven
    <2>2. QED BY <1>1, <1>3, <2>1 DEF StagesProven, Proven
  <1>6. SessionsProven'
    <2>1. \A c \in Sessions : sess[c] # NoSession =>
             sess[c].events \subseteq Feedback /\ Proven(sess[c])
      BY DEF Inv, TypeOK, Session, Provenance, SessionsProven
    <2> DEFINE x == [sess[s] EXCEPT !.events = @ \cup {f}, !.receipts = @ \cup {f}]
    <2>2. sess' = [sess EXCEPT ![s] = x]
      BY DEF Accept
    <2>3. \A c \in Sessions : sess'[c] = IF c = s THEN x ELSE sess[c]
      BY <2>2 DEF Inv, TypeOK
    <2>4. x.events = sess[s].events \cup {f} /\ x.generation = sess[s].generation
      BY <1>1 DEF Session
    <2> HIDE DEF x
    <2>5. \A g \in x.events : acceptedIn'[g] = {x.generation}
      BY <1>1, <1>2, <1>3, <2>1, <2>4
    <2>6. \A c \in Sessions : sess[c] # NoSession =>
             \A g \in sess[c].events : acceptedIn'[g] = {sess[c].generation}
      BY <1>3, <2>1
    <2>7. QED BY <2>3, <2>5, <2>6 DEF SessionsProven, Proven
  <1>7. QED BY <1>4, <1>5, <1>6 DEF Provenance

LEMMA NewProven ==
  ASSUME Inv, Provenance, NEW s \in Sessions, New(s)
  PROVE  SessionsProven'
  <1>1. PICK g \in Generations, k \in Keys :
          sess' = [sess EXCEPT ![s] =
                     [head |-> NoRecord, revision |-> 0, generation |-> g, key |-> k,
                      events |-> {}, undone |-> {}, receipts |-> {}, checkpoint |-> 0,
                      intact |-> TRUE, fenced |-> FALSE, committing |-> NoStage]]
    BY DEF New
  <1> DEFINE x == [head |-> NoRecord, revision |-> 0, generation |-> g, key |-> k,
                   events |-> {}, undone |-> {}, receipts |-> {}, checkpoint |-> 0,
                   intact |-> TRUE, fenced |-> FALSE, committing |-> NoStage]
  <1>2. Proven(x)
    BY DEF Proven
  <1>3. acceptedIn' = acceptedIn
    BY DEF New
  <1> HIDE DEF x
  <1>4. QED BY <1>1, <1>2, <1>3, SessionMovesProven DEF Inv, Provenance, x

LEMMA OpenProven ==
  ASSUME Inv, Provenance, NEW s \in Sessions, Open(s)
  PROVE  SessionsProven'
  <1> DEFINE x == [head |-> head, revision |-> head.revision,
                   generation |-> head.generation, key |-> head.key,
                   events |-> head.events, undone |-> head.undone, receipts |-> {},
                   checkpoint |-> head.checkpoint,
                   intact |-> TRUE, fenced |-> FALSE, committing |-> NoStage]
  <1>1. Proven(head)
    BY DEF Open, Provenance, RegisterProven
  <1>2. Proven(x)
    BY <1>1 DEF Proven
  <1>3. sess' = [sess EXCEPT ![s] = x] /\ acceptedIn' = acceptedIn
    BY DEF Open
  <1> HIDE DEF x
  <1>4. QED BY <1>2, <1>3, SessionMovesProven DEF Inv, Provenance

LEMMA CloseProven ==
  ASSUME Inv, Provenance, NEW s \in Sessions, Close(s)
  PROVE  StagesProven' /\ SessionsProven'
  <1>1. /\ sess' = [sess EXCEPT ![s] = NoSession] /\ stage' = Disown(stage, s)
        /\ acceptedIn' = acceptedIn
    BY DEF Close
  <1>2. stage \in [Stages -> Stage \cup {NoStage}]
    BY DEF Inv, TypeOK
  <1>3. \A t \in Stages : stage'[t] # NoStage =>
           stage[t] # NoStage /\ stage'[t].candidate = stage[t].candidate
    BY <1>1, <1>2, DisownKeeps
  <1>4. QED BY <1>1, <1>3, KeptCandidatesProven, SessionMovesProven DEF Inv, Provenance

LEMMA UndoProven ==
  ASSUME Inv, Provenance, NEW s \in Sessions, NEW f \in Feedback, Undo(s, f)
  PROVE  SessionsProven'
  <1> DEFINE x == [sess[s] EXCEPT !.undone = @ \cup {f}]
  <1>1. /\ sess[s] # NoSession /\ sess[s] \in Session
        /\ sess' = [sess EXCEPT ![s] = x] /\ acceptedIn' = acceptedIn
    BY DEF Undo, Ready, Inv, TypeOK
  <1>2. x.events = sess[s].events /\ x.generation = sess[s].generation
    BY <1>1 DEF Session
  <1> HIDE DEF x
  <1>3. QED BY <1>1, <1>2, SameHistoryProven DEF Inv, Provenance

LEMMA ReplaceCoreProven ==
  ASSUME Inv, Provenance, NEW s \in Sessions, ReplaceCore(s)
  PROVE  SessionsProven'
  <1> DEFINE x == [sess[s] EXCEPT !.intact = FALSE, !.events = {}, !.undone = {},
                                  !.receipts = {}, !.checkpoint = 0]
  <1>1. sess[s] \in Session /\ sess' = [sess EXCEPT ![s] = x] /\ acceptedIn' = acceptedIn
    BY DEF ReplaceCore, Ready, Inv, TypeOK
  <1>2. x.events = {}
    BY <1>1 DEF Session
  <1> HIDE DEF x
  <1>3. QED BY <1>1, <1>2, SessionMovesProven DEF Inv, Provenance, Proven

LEMMA PrepareProven ==
  ASSUME Inv, Provenance, NEW s \in Sessions, NEW t \in Stages, Prepare(s, t)
  PROVE  StagesProven' /\ SessionsProven'
  <1> DEFINE x == [sess[s] EXCEPT !.checkpoint = @ + 1]
             y == [owner |-> s, base |-> sess[s].head, reset |-> FALSE, consumed |-> FALSE,
                   candidate |-> [revision |-> sess[s].revision + 1,
                                  generation |-> sess[s].generation, key |-> sess[s].key,
                                  checkpoint |-> sess[s].checkpoint + 1,
                                  events |-> sess[s].events, undone |-> sess[s].undone]]
  <1>1. /\ sess[s] # NoSession /\ sess[s] \in Session /\ acceptedIn' = acceptedIn
        /\ sess' = [sess EXCEPT ![s] = x] /\ stage' = [stage EXCEPT ![t] = y]
    BY DEF Prepare, Ready, Inv, TypeOK
  <1>2. x.events = sess[s].events /\ x.generation = sess[s].generation
    BY <1>1 DEF Session
  <1>3. Proven(y.candidate)
    BY <1>1 DEF Provenance, SessionsProven, Proven
  <1> HIDE DEF x, y
  <1>4. QED BY <1>1, <1>2, <1>3, SameHistoryProven, StageFillsProven DEF Inv, Provenance

LEMMA PrepareClearProven ==
  ASSUME Inv, Provenance, NEW s \in Sessions, NEW t \in Stages, PrepareClear(s, t)
  PROVE  StagesProven' /\ SessionsProven'
  <1> DEFINE x == [sess[s] EXCEPT !.fenced = @ \/ head # sess[s].head]
             r == IF head = NoRecord THEN 1 ELSE head.revision + 1
  <1>1. PICK g \in Generations, k \in Keys :
          stage' = [stage EXCEPT ![t] =
                [owner |-> s, base |-> head, reset |-> TRUE, consumed |-> FALSE,
                 candidate |-> [revision |-> r, generation |-> g, key |-> k, checkpoint |-> 1,
                                events |-> {}, undone |-> {}]]]
    BY DEF PrepareClear
  <1> DEFINE y == [owner |-> s, base |-> head, reset |-> TRUE, consumed |-> FALSE,
                   candidate |-> [revision |-> r, generation |-> g, key |-> k,
                                  checkpoint |-> 1, events |-> {}, undone |-> {}]]
  <1>2. /\ sess[s] # NoSession /\ sess[s] \in Session /\ acceptedIn' = acceptedIn
        /\ sess' = [sess EXCEPT ![s] = x] /\ stage' = [stage EXCEPT ![t] = y]
    BY <1>1 DEF PrepareClear, Ready, Inv, TypeOK
  <1>3. x.events = sess[s].events /\ x.generation = sess[s].generation
    BY <1>2 DEF Session
  <1>4. Proven(y.candidate)
    BY DEF Proven
  <1> HIDE DEF x, y
  <1>5. QED BY <1>2, <1>3, <1>4, SameHistoryProven, StageFillsProven DEF Inv, Provenance

LEMMA FenceProven ==
  ASSUME Inv, Provenance, NEW s \in Sessions, sess[s] # NoSession, NEW b \in BOOLEAN,
         acceptedIn' = acceptedIn, stage' = stage,
         \/ sess' = [sess EXCEPT ![s].fenced = b]
         \/ \E t \in Stages \cup {NoStage} :
               sess' = [sess EXCEPT ![s].fenced = b, ![s].committing = t]
  PROVE  StagesProven' /\ SessionsProven'
  <1>1. sess[s] \in Session
    BY DEF Inv, TypeOK
  <1>2. CASE sess' = [sess EXCEPT ![s].fenced = b]
    <2> DEFINE x == [sess[s] EXCEPT !.fenced = b]
    <2>1. x.events = sess[s].events /\ x.generation = sess[s].generation
          /\ sess' = [sess EXCEPT ![s] = x]
      BY <1>1, <1>2 DEF Session
    <2> HIDE DEF x
    <2>2. QED BY <2>1, SameHistoryProven, SameStagesProven DEF Inv, Provenance
  <1>3. ASSUME NEW t \in Stages \cup {NoStage},
               sess' = [sess EXCEPT ![s].fenced = b, ![s].committing = t]
        PROVE  StagesProven' /\ SessionsProven'
    <2> DEFINE x == [sess[s] EXCEPT !.fenced = b, !.committing = t]
    <2>1. x.events = sess[s].events /\ x.generation = sess[s].generation
          /\ sess' = [sess EXCEPT ![s] = x]
      BY <1>1, <1>3 DEF Session
    <2> HIDE DEF x
    <2>2. QED BY <2>1, SameHistoryProven, SameStagesProven DEF Inv, Provenance
  <1>4. QED BY <1>2, <1>3

LEMMA AdoptProven ==
  ASSUME Inv, Provenance, NEW s \in Sessions, NEW t \in Stages, sess[s] # NoSession,
         stage[t] # NoStage, stage[t].owner = s, acceptedIn' = acceptedIn, Adopt(s, t)
  PROVE  StagesProven' /\ SessionsProven'
  <1> DEFINE c == stage[t].candidate
             x == AdoptedSession(s, t)
             spent == [stage EXCEPT ![t].consumed = TRUE]
  <1>1. /\ sess[s] \in Session /\ stage \in [Stages -> Stage \cup {NoStage}]
        /\ Proven(c) /\ Proven(sess[s])
        /\ sess' = [sess EXCEPT ![s] = x]
        /\ stage' = IF stage[t].reset THEN Disown(spent, s) ELSE spent
    BY DEF Inv, TypeOK, Provenance, StagesProven, SessionsProven, Adopt
  <1>2. /\ spent \in [Stages -> Stage \cup {NoStage}]
        /\ \A u \in Stages : /\ spent[u] # NoStage <=> stage[u] # NoStage
                             /\ spent[u].candidate = stage[u].candidate
    BY <1>1, SpentStage
  <1> HIDE DEF spent, c
  <1>3. \A u \in Stages : stage'[u] # NoStage =>
           stage[u] # NoStage /\ stage'[u].candidate = stage[u].candidate
    BY <1>1, <1>2, DisownKeeps
  <1>4. StagesProven'
    BY <1>3, KeptCandidatesProven DEF Provenance
  <1>5. \/ x.events = c.events /\ x.generation = c.generation
        \/ x.events = sess[s].events /\ x.generation = sess[s].generation
    <2>1. Settled(s, t) \in [head : {c}, revision : {c.revision}, generation : Generations,
                             key : Keys, events : SUBSET Feedback, undone : SUBSET Feedback,
                             receipts : SUBSET Feedback, checkpoint : Counter,
                             intact : BOOLEAN, fenced : BOOLEAN,
                             committing : Stages \cup {NoStage}]
          /\ Settled(s, t).events = sess[s].events
          /\ Settled(s, t).generation = sess[s].generation
      BY <1>1 DEF Settled, Session, c
    <2>2. QED BY <2>1 DEF AdoptedSession, c
  <1> HIDE DEF x
  <1>6. Proven(x)
    BY <1>1, <1>5 DEF Proven
  <1>7. SessionsProven'
    BY <1>1, <1>6, SessionMovesProven DEF Inv, Provenance
  <1>8. QED BY <1>4, <1>7

LEMMA CommitProven ==
  ASSUME Inv, Provenance, NEW s \in Sessions, NEW t \in Stages, Commit(s, t)
  PROVE  Provenance'
  <1>1. /\ sess[s] # NoSession /\ stage[t] # NoStage
        /\ sess' = [sess EXCEPT ![s].fenced = TRUE, ![s].committing = t]
        /\ UNCHANGED <<stage, acceptedIn, head, write>>
        /\ call' = [call EXCEPT ![s] = [phase |-> "called", expected |-> stage[t].base,
                                        candidate |-> stage[t].candidate]]
    BY DEF Commit, CheckStage, Ready, Register!Invoke
  <1>2. StagesProven' /\ SessionsProven'
    BY <1>1, FenceProven
  <1>3. Proven(stage[t].candidate)
    BY <1>1 DEF Provenance, StagesProven
  <1>4. \A c \in Sessions : call'[c] = IF c = s
            THEN [phase |-> "called", expected |-> stage[t].base,
                  candidate |-> stage[t].candidate]
            ELSE call[c]
    BY <1>1 DEF Inv, TypeOK
  <1>5. RegisterProven'
    BY <1>1, <1>3, <1>4 DEF Provenance, RegisterProven, Proven
  <1>6. QED BY <1>2, <1>5 DEF Provenance

LEMMA CommitReturnProven ==
  ASSUME Inv, Provenance, NEW s \in Sessions, CommitReturn(s)
  PROVE  Provenance'
  <1> DEFINE t == sess[s].committing
  <1>1. sess[s] # NoSession /\ t # NoStage /\ acceptedIn' = acceptedIn
    BY DEF CommitReturn
  <1>2. t \in Stages /\ stage[t] # NoStage /\ stage[t].owner = s
    BY <1>1 DEF Inv, Links, TypeOK, Session, SessionLinks
  <1>3. \E o : Register!Answer(s, o)
    BY DEF CommitReturn, CommitApplied, CommitNotCommitted, CommitDoubtful
  <1>4. RegisterProven'
    BY <1>1, <1>3, RegisterStepsProven DEF Provenance
  <1>5. StagesProven' /\ SessionsProven'
    <2>1. CASE CommitApplied(s, t)
      BY <1>1, <1>2, <2>1, AdoptProven DEF CommitApplied
    <2>2. CASE CommitNotCommitted(s, t) \/ CommitDoubtful(s, t)
      BY <1>1, <2>2, FenceProven DEF CommitNotCommitted, CommitDoubtful, RecoveryRequired
    <2>3. QED BY <2>1, <2>2 DEF CommitReturn
  <1>6. QED BY <1>4, <1>5 DEF Provenance

LEMMA ReconcileProven ==
  ASSUME Inv, Provenance, NEW s \in Sessions, NEW t \in Stages, Reconcile(s, t)
  PROVE  StagesProven' /\ SessionsProven'
  <1>1. /\ sess[s] # NoSession /\ stage[t] # NoStage /\ stage[t].owner = s
        /\ acceptedIn' = acceptedIn
    BY DEF Reconcile, CheckStage, Ready
  <1>2. CASE ReconcileApplied(s, t)
    BY <1>1, <1>2, AdoptProven DEF ReconcileApplied
  <1>3. CASE ReconcileUnchanged(s, t) \/ ReconcileConflict(s, t)
    BY <1>1, <1>3, FenceProven DEF ReconcileUnchanged, ReconcileConflict, RecoveryRequired
  <1>4. QED BY <1>2, <1>3 DEF Reconcile

LEMMA HostProven ==
  ASSUME Inv, Provenance, NEW s \in Sessions, Host(s)
  PROVE  Provenance'
  <1>1. ASSUME UNCHANGED regVars, acceptedIn' = acceptedIn, StagesProven', SessionsProven'
        PROVE  Provenance'
    BY <1>1, RegisterStepsProven DEF Provenance
  <1>2. ASSUME stage' = stage, acceptedIn' = acceptedIn
        PROVE  StagesProven'
    BY <1>2, SameStagesProven DEF Provenance
  <1>3. CASE New(s)
    BY <1>1, <1>2, <1>3, NewProven DEF New
  <1>4. CASE Open(s)
    BY <1>1, <1>2, <1>4, OpenProven DEF Open
  <1>5. CASE Close(s)
    <2>1. Register!Kill(s) /\ acceptedIn' = acceptedIn
      BY <1>5 DEF Close
    <2>2. RegisterProven'
      BY <2>1, RegisterStepsProven DEF Provenance
    <2>3. QED BY <1>5, <2>2, CloseProven DEF Provenance
  <1>6. ASSUME NEW f \in Feedback, Undo(s, f)
        PROVE  Provenance'
    BY <1>1, <1>2, <1>6, UndoProven DEF Undo
  <1>7. CASE ReplaceCore(s)
    BY <1>1, <1>2, <1>7, ReplaceCoreProven DEF ReplaceCore
  <1>8. ASSUME NEW t \in Stages, Prepare(s, t)
        PROVE  Provenance'
    BY <1>1, <1>8, PrepareProven DEF Prepare
  <1>9. ASSUME NEW t \in Stages, PrepareClear(s, t)
        PROVE  Provenance'
    BY <1>1, <1>9, PrepareClearProven DEF PrepareClear
  <1>10. ASSUME NEW t \in Stages, Reconcile(s, t)
         PROVE  Provenance'
    BY <1>1, <1>10, ReconcileProven DEF Reconcile
  <1>11. CASE ClearFindsNothing(s)
    BY <1>1, <1>11, FenceProven DEF ClearFindsNothing, Ready
  <1>12. QED
    BY <1>3, <1>4, <1>5, <1>6, <1>7, <1>8, <1>9, <1>10, <1>11,
       AcceptProven, CommitProven, CommitReturnProven DEF Host

LEMMA NextProven == Inv /\ Provenance /\ [Next]_vars => Provenance'
  <1> SUFFICES ASSUME Inv, Provenance, [Next]_vars PROVE Provenance'
    OBVIOUS
  <1>1. ASSUME UNCHANGED <<sess, stage, acceptedIn>>, RegisterProven'
        PROVE  Provenance'
    BY <1>1, SameStagesProven, SameSessionsProven DEF Provenance
  <1>2. CASE UNCHANGED vars
    BY <1>1, <1>2, RegisterStepsProven DEF vars, regVars, Provenance
  <1>3. ASSUME NEW s \in Sessions, Host(s)
        PROVE  Provenance'
    BY <1>3, HostProven
  <1>4. ASSUME NEW c \in ConsentLevels, SetConsent(c)
        PROVE  Provenance'
    BY <1>1, <1>4, RegisterStepsProven DEF SetConsent, Provenance
  <1>5. CASE SelectRecord
    BY <1>1, <1>5, RegisterStepsProven DEF SelectRecord, Provenance
  <1>6. CASE Provider
    BY <1>1, <1>6, RegisterStepsProven DEF Provider, Provenance
  <1>7. QED BY <1>2, <1>3, <1>4, <1>5, <1>6 DEF Next

LEMMA InitProven == Init => Provenance
  <1> SUFFICES ASSUME Init PROVE Provenance
    OBVIOUS
  <1>1. \A c \in Sessions : call[c].phase = "idle"
    BY DEF Init, Register!RegInit, Register!IdleCall
  <1>2. QED BY <1>1 DEF Init, Register!RegInit, Provenance, RegisterProven, StagesProven,
                        SessionsProven

(***************************************************************************)
(* Cleared history does not come back: what the protected record stores    *)
(* was accepted in the generation of that record, whatever stages are      *)
(* committed late, whichever session cleared, opened or died in between    *)
(* (prepare_clear moves the generation; adopt drops the old core).         *)
(***************************************************************************)
THEOREM HistoryStaysInGeneration == Spec => []HistoryBelongsToGeneration
  <1>1. Init => Inv /\ Provenance
    BY InitEstablishes, InitProven
  <1>2. Inv /\ Provenance /\ [Next]_vars => (Inv /\ Provenance)'
    BY NextPreserves, NextProven
  <1>3. Provenance => HistoryBelongsToGeneration
    BY DEF Provenance, RegisterProven, Proven, HistoryBelongsToGeneration
  <1>4. QED BY <1>1, <1>2, <1>3, PTL DEF Spec

-----------------------------------------------------------------------------
(***************************************************************************)
(* What a reset carries: nothing, into a generation its session is not in  *)
(* yet.  So a session that adopts one leaves its generation, and a step    *)
(* that stays in the generation keeps the core.                            *)
(***************************************************************************)
ResetAhead(y) ==
    /\ y.candidate.events = {}
    /\ y.owner # NoOwner => y.candidate.generation > sess[y.owner].generation

ResetsAhead == \A t \in Stages : stage[t] # NoStage /\ stage[t].reset => ResetAhead(stage[t])

Keeps(x, y) ==
    y.intact /\ y.generation = x.generation => /\ x.events \subseteq y.events
                                               /\ x.undone \subseteq y.undone

SessionsKeep ==
    \A s \in Sessions : sess[s] # NoSession /\ sess'[s] # NoSession => Keeps(sess[s], sess'[s])

ResetInv == Inv /\ ResetsAhead

LEMMA NothingMoves ==
  ASSUME ResetInv, sess' = sess, stage' = stage
  PROVE  ResetsAhead' /\ SessionsKeep
  BY DEF ResetInv, ResetsAhead, ResetAhead, SessionsKeep, Keeps

LEMMA CoreKept ==
  ASSUME ResetInv, NEW s \in Sessions, NEW x, sess' = [sess EXCEPT ![s] = x], stage' = stage,
         x.generation = sess[s].generation, Keeps(sess[s], x)
  PROVE  ResetsAhead' /\ SessionsKeep
  <1>1. \A c \in Sessions : sess'[c] = IF c = s THEN x ELSE sess[c]
    BY DEF ResetInv, Inv, TypeOK
  <1>2. \A t \in Stages : stage[t] # NoStage => stage[t].owner \in Sessions \cup {NoOwner}
    BY DEF ResetInv, Inv, TypeOK, Stage
  <1>3. ResetsAhead'
    BY <1>1, <1>2 DEF ResetInv, ResetsAhead, ResetAhead
  <1>4. SessionsKeep
    BY <1>1 DEF SessionsKeep, Keeps
  <1>5. QED BY <1>3, <1>4

(***************************************************************************)
(* A session that opens has no stages yet, one that closes lets go of its  *)
(* own.                                                                    *)
(***************************************************************************)
LEMMA OpenedOwnsNothing ==
  ASSUME ResetInv, NEW s \in Sessions, NEW x, sess[s] = NoSession,
         sess' = [sess EXCEPT ![s] = x], stage' = stage
  PROVE  ResetsAhead' /\ SessionsKeep
  <1>1. \A c \in Sessions : sess'[c] = IF c = s THEN x ELSE sess[c]
    BY DEF ResetInv, Inv, TypeOK
  <1>2. \A t \in Stages : stage[t] # NoStage => stage[t].owner \in (Sessions \ {s}) \cup {NoOwner}
    BY DEF ResetInv, Inv, Links, StageLinks, TypeOK, Stage
  <1>3. ResetsAhead'
    BY <1>1, <1>2 DEF ResetInv, ResetsAhead, ResetAhead
  <1>4. SessionsKeep
    BY <1>1 DEF SessionsKeep, Keeps
  <1>5. QED BY <1>3, <1>4

LEMMA StagesLetGo ==
  ASSUME ResetInv, NEW s \in Sessions, NEW x, sess' = [sess EXCEPT ![s] = x],
         NEW f \in [Stages -> Stage \cup {NoStage}], stage' = Disown(f, s),
         \A t \in Stages : f[t] # NoStage =>
            /\ stage[t] # NoStage
            /\ f[t].owner = stage[t].owner
            /\ f[t].candidate = stage[t].candidate
            /\ f[t].reset = stage[t].reset
  PROVE  ResetsAhead'
  <1>1. \A c \in Sessions : sess'[c] = IF c = s THEN x ELSE sess[c]
    BY DEF ResetInv, Inv, TypeOK
  <1>2. \A t \in Stages : stage'[t] # NoStage =>
           /\ stage[t] # NoStage
           /\ stage'[t].owner = IF stage[t].owner = s THEN NoOwner ELSE stage[t].owner
           /\ stage'[t].candidate = stage[t].candidate
           /\ stage'[t].reset = stage[t].reset
    BY DisownKeeps
  <1>3. \A t \in Stages : stage[t] # NoStage => stage[t].owner \in Sessions \cup {NoOwner}
    BY DEF ResetInv, Inv, TypeOK, Stage
  <1>4. ASSUME NEW t \in Stages, stage'[t] # NoStage, stage'[t].reset
        PROVE  ResetAhead(stage[t])'
    <2>1. ResetAhead(stage[t])
      BY <1>2, <1>4 DEF ResetInv, ResetsAhead
    <2>2. QED BY <1>1, <1>2, <1>3, <1>4, <2>1 DEF ResetAhead
  <1>5. QED BY <1>4 DEF ResetsAhead

LEMMA CloseKeeps ==
  ASSUME ResetInv, NEW s \in Sessions, Close(s)
  PROVE  ResetsAhead' /\ SessionsKeep
  <1>1. /\ sess' = [sess EXCEPT ![s] = NoSession] /\ stage' = Disown(stage, s)
        /\ stage \in [Stages -> Stage \cup {NoStage}]
    BY DEF Close, ResetInv, Inv, TypeOK
  <1>2. ResetsAhead'
    BY <1>1, StagesLetGo
  <1>3. \A c \in Sessions : sess'[c] = IF c = s THEN NoSession ELSE sess[c]
    BY <1>1 DEF ResetInv, Inv, TypeOK
  <1>4. QED BY <1>2, <1>3 DEF SessionsKeep, Keeps

-----------------------------------------------------------------------------
LEMMA FeedbackKeeps ==
  ASSUME ResetInv, NEW s \in Sessions, NEW f \in Feedback, Accept(s, f) \/ Undo(s, f)
  PROVE  ResetsAhead' /\ SessionsKeep
  <1>1. sess[s] \in Session /\ stage' = stage
    BY DEF Accept, Undo, Ready, ResetInv, Inv, TypeOK
  <1>2. CASE Accept(s, f)
    <2> DEFINE x == [sess[s] EXCEPT !.events = @ \cup {f}, !.receipts = @ \cup {f}]
    <2>1. sess' = [sess EXCEPT ![s] = x]
      BY <1>2 DEF Accept
    <2>2. /\ x.events = sess[s].events \cup {f} /\ x.undone = sess[s].undone
          /\ x.generation = sess[s].generation
      BY <1>1 DEF Session
    <2> HIDE DEF x
    <2>3. Keeps(sess[s], x)
      BY <2>2 DEF Keeps
    <2>4. QED BY <1>1, <2>1, <2>2, <2>3, CoreKept
  <1>3. CASE Undo(s, f)
    <2> DEFINE x == [sess[s] EXCEPT !.undone = @ \cup {f}]
    <2>1. sess' = [sess EXCEPT ![s] = x]
      BY <1>3 DEF Undo
    <2>2. /\ x.events = sess[s].events /\ x.undone = sess[s].undone \cup {f}
          /\ x.generation = sess[s].generation
      BY <1>1 DEF Session
    <2> HIDE DEF x
    <2>3. Keeps(sess[s], x)
      BY <2>2 DEF Keeps
    <2>4. QED BY <1>1, <2>1, <2>2, <2>3, CoreKept
  <1>4. QED BY <1>2, <1>3

LEMMA ReplaceCoreKeeps ==
  ASSUME ResetInv, NEW s \in Sessions, ReplaceCore(s)
  PROVE  ResetsAhead' /\ SessionsKeep
  <1> DEFINE x == [sess[s] EXCEPT !.intact = FALSE, !.events = {}, !.undone = {},
                                  !.receipts = {}, !.checkpoint = 0]
  <1>1. sess[s] \in Session /\ sess' = [sess EXCEPT ![s] = x] /\ stage' = stage
    BY DEF ReplaceCore, Ready, ResetInv, Inv, TypeOK
  <1>2. ~x.intact /\ x.generation = sess[s].generation
    BY <1>1 DEF Session
  <1> HIDE DEF x
  <1>3. QED BY <1>1, <1>2, CoreKept DEF Keeps

LEMMA FenceKeeps ==
  ASSUME ResetInv, NEW s \in Sessions, sess[s] # NoSession, NEW b \in BOOLEAN, stage' = stage,
         \/ sess' = [sess EXCEPT ![s].fenced = b]
         \/ \E t \in Stages \cup {NoStage} :
               sess' = [sess EXCEPT ![s].fenced = b, ![s].committing = t]
  PROVE  ResetsAhead' /\ SessionsKeep
  <1>1. sess[s] \in Session
    BY DEF ResetInv, Inv, TypeOK
  <1>2. PICK x : /\ sess' = [sess EXCEPT ![s] = x]
                 /\ x.events = sess[s].events /\ x.undone = sess[s].undone
                 /\ x.generation = sess[s].generation
    <2>1. CASE sess' = [sess EXCEPT ![s].fenced = b]
      <3> DEFINE x == [sess[s] EXCEPT !.fenced = b]
      <3>1. sess' = [sess EXCEPT ![s] = x]
        BY <2>1
      <3>2. /\ x.events = sess[s].events /\ x.undone = sess[s].undone
            /\ x.generation = sess[s].generation
        BY <1>1 DEF Session
      <3> HIDE DEF x
      <3>3. QED BY <3>1, <3>2
    <2>2. ASSUME NEW t \in Stages \cup {NoStage},
                 sess' = [sess EXCEPT ![s].fenced = b, ![s].committing = t]
          PROVE  \E x : /\ sess' = [sess EXCEPT ![s] = x]
                        /\ x.events = sess[s].events /\ x.undone = sess[s].undone
                        /\ x.generation = sess[s].generation
      <3> DEFINE x == [sess[s] EXCEPT !.fenced = b, !.committing = t]
      <3>1. sess' = [sess EXCEPT ![s] = x]
        BY <2>2
      <3>2. /\ x.events = sess[s].events /\ x.undone = sess[s].undone
            /\ x.generation = sess[s].generation
        BY <1>1 DEF Session
      <3> HIDE DEF x
      <3>3. QED BY <3>1, <3>2
    <2>3. QED BY <2>1, <2>2
  <1>3. Keeps(sess[s], x)
    BY <1>2 DEF Keeps
  <1>4. QED BY <1>2, <1>3, CoreKept

(***************************************************************************)
(* A stage that is put into a free slot beside a core that stays.          *)
(***************************************************************************)
LEMMA StagedKeeps ==
  ASSUME ResetInv, NEW s \in Sessions, NEW t \in Stages, NEW x, NEW y,
         sess' = [sess EXCEPT ![s] = x], stage' = [stage EXCEPT ![t] = y],
         x.generation = sess[s].generation, Keeps(sess[s], x), y.owner = s,
         y.reset => y.candidate.events = {} /\ y.candidate.generation > sess[s].generation
  PROVE  ResetsAhead' /\ SessionsKeep
  <1>1. \A c \in Sessions : sess'[c] = IF c = s THEN x ELSE sess[c]
    BY DEF ResetInv, Inv, TypeOK
  <1>2. \A u \in Stages : stage'[u] = IF u = t THEN y ELSE stage[u]
    BY DEF ResetInv, Inv, TypeOK
  <1>3. \A u \in Stages : stage[u] # NoStage => stage[u].owner \in Sessions \cup {NoOwner}
    BY DEF ResetInv, Inv, TypeOK, Stage
  <1>4. ResetsAhead'
    BY <1>1, <1>2, <1>3 DEF ResetInv, ResetsAhead, ResetAhead
  <1>5. SessionsKeep
    BY <1>1 DEF SessionsKeep, Keeps
  <1>6. QED BY <1>4, <1>5

LEMMA PrepareKeeps ==
  ASSUME ResetInv, NEW s \in Sessions, NEW t \in Stages, Prepare(s, t)
  PROVE  ResetsAhead' /\ SessionsKeep
  <1> DEFINE x == [sess[s] EXCEPT !.checkpoint = @ + 1]
             y == [owner |-> s, base |-> sess[s].head, reset |-> FALSE, consumed |-> FALSE,
                   candidate |-> [revision |-> sess[s].revision + 1,
                                  generation |-> sess[s].generation, key |-> sess[s].key,
                                  checkpoint |-> sess[s].checkpoint + 1,
                                  events |-> sess[s].events, undone |-> sess[s].undone]]
  <1>1. /\ sess[s] \in Session
        /\ sess' = [sess EXCEPT ![s] = x] /\ stage' = [stage EXCEPT ![t] = y]
    BY DEF Prepare, Ready, ResetInv, Inv, TypeOK
  <1>2. /\ x.events = sess[s].events /\ x.undone = sess[s].undone
        /\ x.generation = sess[s].generation
    BY <1>1 DEF Session
  <1>3. ~y.reset /\ y.owner = s
    OBVIOUS
  <1> HIDE DEF x, y
  <1>4. Keeps(sess[s], x)
    BY <1>2 DEF Keeps
  <1>5. QED BY <1>1, <1>2, <1>3, <1>4, StagedKeeps

LEMMA PrepareClearKeeps ==
  ASSUME ResetInv, NEW s \in Sessions, NEW t \in Stages, PrepareClear(s, t)
  PROVE  ResetsAhead' /\ SessionsKeep
  <1> DEFINE x == [sess[s] EXCEPT !.fenced = @ \/ head # sess[s].head]
             r == IF head = NoRecord THEN 1 ELSE head.revision + 1
  <1>1. PICK g \in Generations, k \in Keys :
          /\ TakesOver(s, g, k)
          /\ stage' = [stage EXCEPT ![t] =
                [owner |-> s, base |-> head, reset |-> TRUE, consumed |-> FALSE,
                 candidate |-> [revision |-> r, generation |-> g, key |-> k, checkpoint |-> 1,
                                events |-> {}, undone |-> {}]]]
    BY DEF PrepareClear
  <1> DEFINE y == [owner |-> s, base |-> head, reset |-> TRUE, consumed |-> FALSE,
                   candidate |-> [revision |-> r, generation |-> g, key |-> k,
                                  checkpoint |-> 1, events |-> {}, undone |-> {}]]
  <1>2. /\ sess[s] \in Session
        /\ sess' = [sess EXCEPT ![s] = x] /\ stage' = [stage EXCEPT ![t] = y]
    BY <1>1 DEF PrepareClear, Ready, ResetInv, Inv, TypeOK
  <1>3. /\ x.events = sess[s].events /\ x.undone = sess[s].undone
        /\ x.generation = sess[s].generation
    BY <1>2 DEF Session
  <1>4. y.owner = s /\ y.candidate.events = {} /\ y.candidate.generation > sess[s].generation
    BY <1>1 DEF TakesOver
  <1> HIDE DEF x, y
  <1>5. Keeps(sess[s], x)
    BY <1>3 DEF Keeps
  <1>6. QED BY <1>2, <1>3, <1>4, <1>5, StagedKeeps

(***************************************************************************)
(* Adopting a save keeps the core; adopting a reset leaves the generation, *)
(* and every other stage of the session.                                   *)
(***************************************************************************)
LEMMA AdoptKeeps ==
  ASSUME ResetInv, NEW s \in Sessions, NEW t \in Stages, sess[s] # NoSession,
         stage[t] # NoStage, stage[t].owner = s, Adopt(s, t)
  PROVE  ResetsAhead' /\ SessionsKeep
  <1> DEFINE c == stage[t].candidate
             x == AdoptedSession(s, t)
             spent == [stage EXCEPT ![t].consumed = TRUE]
  <1>1. /\ sess[s] \in Session /\ stage \in [Stages -> Stage \cup {NoStage}]
        /\ sess' = [sess EXCEPT ![s] = x]
        /\ stage' = IF stage[t].reset THEN Disown(spent, s) ELSE spent
    BY DEF ResetInv, Inv, TypeOK, Adopt
  <1>2. /\ spent \in [Stages -> Stage \cup {NoStage}]
        /\ \A u \in Stages : /\ spent[u] # NoStage <=> stage[u] # NoStage
                             /\ spent[u].owner = stage[u].owner
                             /\ spent[u].candidate = stage[u].candidate
                             /\ spent[u].reset = stage[u].reset
    BY <1>1, SpentStage
  <1> HIDE DEF spent
  <1>3. \A d \in Sessions : sess'[d] = IF d = s THEN x ELSE sess[d]
    BY <1>1 DEF ResetInv, Inv, TypeOK
  <1>4. /\ c.generation \in Nat /\ sess[s].generation \in Nat
        /\ c \in Record
    <2>1. stage[t] \in Stage
      BY <1>1
    <2>2. c \in Record
      BY <2>1 DEF Stage
    <2>3. c.generation \in Generations
      BY <2>2 DEF Record
    <2>4. sess[s].generation \in Generations
      BY <1>1 DEF Session
    <2>5. \A g \in Generations : g \in Nat
      BY GenerationAssumption, CounterAssumption
    <2>6. QED BY <2>2, <2>3, <2>4, <2>5
  <1>5. /\ stage[t].reset => x.generation = c.generation
        /\ ~stage[t].reset => /\ x.generation = sess[s].generation
                              /\ x.events = sess[s].events /\ x.undone = sess[s].undone
    <2>1. Settled(s, t) \in [head : {c}, revision : {c.revision}, generation : Generations,
                             key : Keys, events : SUBSET Feedback, undone : SUBSET Feedback,
                             receipts : SUBSET Feedback, checkpoint : Counter,
                             intact : BOOLEAN, fenced : BOOLEAN,
                             committing : Stages \cup {NoStage}]
          /\ Settled(s, t).events = sess[s].events
          /\ Settled(s, t).undone = sess[s].undone
          /\ Settled(s, t).generation = sess[s].generation
      BY <1>1 DEF Settled, Session
    <2>2. QED BY <2>1 DEF AdoptedSession
  <1> HIDE DEF x
  <1>6. CASE stage[t].reset
    <2>1. ResetsAhead'
      BY <1>1, <1>2, <1>6, StagesLetGo
    <2>2. c.generation > sess[s].generation
      BY <1>6, NoOwnerAssumption DEF ResetInv, ResetsAhead, ResetAhead
    <2>3. Keeps(sess[s], x)
      BY <1>4, <1>5, <1>6, <2>2 DEF Keeps
    <2>4. QED BY <1>3, <2>1, <2>3 DEF SessionsKeep, Keeps
  <1>7. CASE ~stage[t].reset
    <2>1. \A u \in Stages : stage[u] # NoStage => stage[u].owner \in Sessions \cup {NoOwner}
      BY <1>1 DEF Stage
    <2>2. ResetsAhead'
      BY <1>1, <1>2, <1>3, <1>5, <1>7, <2>1 DEF ResetInv, ResetsAhead, ResetAhead
    <2>3. Keeps(sess[s], x)
      BY <1>5, <1>7 DEF Keeps
    <2>4. QED BY <1>3, <2>2, <2>3 DEF SessionsKeep, Keeps
  <1>8. QED BY <1>6, <1>7

LEMMA CommitReturnKeeps ==
  ASSUME ResetInv, NEW s \in Sessions, CommitReturn(s)
  PROVE  ResetsAhead' /\ SessionsKeep
  <1> DEFINE t == sess[s].committing
  <1>1. sess[s] # NoSession /\ t # NoStage
    BY DEF CommitReturn
  <1>2. t \in Stages /\ stage[t] # NoStage /\ stage[t].owner = s
    BY <1>1 DEF ResetInv, Inv, Links, TypeOK, Session, SessionLinks
  <1>3. CASE CommitApplied(s, t)
    BY <1>1, <1>2, <1>3, AdoptKeeps DEF CommitApplied
  <1>4. CASE CommitNotCommitted(s, t) \/ CommitDoubtful(s, t)
    BY <1>1, <1>4, FenceKeeps DEF CommitNotCommitted, CommitDoubtful, RecoveryRequired
  <1>5. QED BY <1>3, <1>4 DEF CommitReturn

LEMMA ReconcileKeeps ==
  ASSUME ResetInv, NEW s \in Sessions, NEW t \in Stages, Reconcile(s, t)
  PROVE  ResetsAhead' /\ SessionsKeep
  <1>1. sess[s] # NoSession /\ stage[t] # NoStage /\ stage[t].owner = s
    BY DEF Reconcile, CheckStage, Ready
  <1>2. CASE ReconcileApplied(s, t)
    BY <1>1, <1>2, AdoptKeeps DEF ReconcileApplied
  <1>3. CASE ReconcileUnchanged(s, t) \/ ReconcileConflict(s, t)
    BY <1>1, <1>3, FenceKeeps DEF ReconcileUnchanged, ReconcileConflict, RecoveryRequired
  <1>4. QED BY <1>2, <1>3 DEF Reconcile

LEMMA HostKeeps ==
  ASSUME ResetInv, NEW s \in Sessions, Host(s)
  PROVE  ResetsAhead' /\ SessionsKeep
  <1>1. ASSUME New(s)
        PROVE  ResetsAhead' /\ SessionsKeep
    <2>1. PICK x : sess' = [sess EXCEPT ![s] = x]
      BY <1>1 DEF New
    <2>2. sess[s] = NoSession /\ stage' = stage
      BY <1>1 DEF New
    <2>3. QED BY <2>1, <2>2, OpenedOwnsNothing
  <1>2. ASSUME Open(s)
        PROVE  ResetsAhead' /\ SessionsKeep
    <2>1. PICK x : sess' = [sess EXCEPT ![s] = x]
      BY <1>2 DEF Open
    <2>2. sess[s] = NoSession /\ stage' = stage
      BY <1>2 DEF Open
    <2>3. QED BY <2>1, <2>2, OpenedOwnsNothing
  <1>3. ASSUME NEW t \in Stages, Commit(s, t)
        PROVE  ResetsAhead' /\ SessionsKeep
    BY <1>3, FenceKeeps DEF Commit, Ready
  <1>4. CASE ClearFindsNothing(s)
    BY <1>4, FenceKeeps DEF ClearFindsNothing, Ready
  <1>5. QED
    BY <1>1, <1>2, <1>3, <1>4, CloseKeeps, FeedbackKeeps, ReplaceCoreKeeps, PrepareKeeps,
       PrepareClearKeeps, ReconcileKeeps, CommitReturnKeeps DEF Host

LEMMA NextKeeps == ResetInv /\ [Next]_vars => ResetInv' /\ SessionsKeep
  <1> SUFFICES ASSUME ResetInv, [Next]_vars PROVE ResetsAhead' /\ SessionsKeep
    BY NextPreserves DEF ResetInv
  <1>1. CASE UNCHANGED vars
    BY <1>1, NothingMoves DEF vars
  <1>2. ASSUME NEW s \in Sessions, Host(s)
        PROVE  ResetsAhead' /\ SessionsKeep
    BY <1>2, HostKeeps
  <1>3. ASSUME NEW c \in ConsentLevels, SetConsent(c)
        PROVE  ResetsAhead' /\ SessionsKeep
    BY <1>3, NothingMoves DEF SetConsent
  <1>4. CASE SelectRecord \/ Provider
    BY <1>4, NothingMoves DEF SelectRecord, Provider
  <1>5. QED BY <1>1, <1>2, <1>3, <1>4 DEF Next

LEMMA InitResets == Init => ResetInv
  <1> SUFFICES ASSUME Init PROVE ResetInv
    OBVIOUS
  <1>1. ResetsAhead
    BY DEF Init, ResetsAhead
  <1>2. QED BY <1>1, InitEstablishes DEF ResetInv

(***************************************************************************)
(* Feedback accepted or undone after prepare survives the commit: as long  *)
(* as a session stays in its generation and its core is its own, adopting  *)
(* a stage (adopt, 547-566) takes no acceptance and no undo away from it.  *)
(***************************************************************************)
THEOREM FeedbackSurvives == Spec => LocalFeedbackKept
  <1>1. SessionsKeep =>
           \A s \in Sessions :
              sess[s] # NoSession /\ sess'[s] # NoSession /\ sess'[s].intact
              /\ sess'[s].generation = sess[s].generation
                 => /\ sess[s].events \subseteq sess'[s].events
                    /\ sess[s].undone \subseteq sess'[s].undone
    BY DEF SessionsKeep, Keeps
  <1>2. ResetInv /\ [Next]_vars => ResetInv' /\ SessionsKeep
    BY NextKeeps
  <1>3. Init => ResetInv
    BY InitResets
  <1>4. QED BY <1>1, <1>2, <1>3, PTL DEF Spec, LocalFeedbackKept

(***************************************************************************)
(* A call into the provider begins in commit alone.                        *)
(***************************************************************************)
Consented ==
    \A s \in Sessions :
       call[s].phase = "idle" /\ call'[s].phase = "called"
          => call'[s].candidate.events = {} \/ Permits(call'[s].candidate.events)

LEMMA NoCallBegins ==
  ASSUME Inv,
         \/ UNCHANGED call
         \/ \E s \in Sessions : \/ Register!Enter(s) \/ Register!Kill(s)
                                \/ \E o : Register!Answer(s, o)
  PROVE  Consented
  <1>1. CASE UNCHANGED call
    BY <1>1 DEF Consented
  <1>2. ASSUME NEW s \in Sessions,
               \/ Register!Enter(s) \/ Register!Kill(s)
               \/ \E o : Register!Answer(s, o)
        PROVE  Consented
    <2>1. \/ call' = [call EXCEPT ![s].phase = "inside"]
          \/ call' = [call EXCEPT ![s] = Register!IdleCall]
      BY <1>2 DEF Register!Enter, Register!Kill, Register!Answer
    <2>2. Register!IdleCall.phase = "idle"
      BY DEF Register!IdleCall
    <2>3. \A c \in Sessions : call'[c] = call[c] \/ call'[c].phase \in {"idle", "inside"}
      BY <2>1, <2>2 DEF Inv, TypeOK, Call
    <2>4. QED BY <2>3 DEF Consented
  <1>3. QED BY <1>1, <1>2

LEMMA CommitConsented ==
  ASSUME ResetInv, NEW s \in Sessions, NEW t \in Stages, Commit(s, t)
  PROVE  Consented
  <1>1. /\ stage[t] # NoStage
        /\ stage[t].reset \/ Permits(stage[t].candidate.events)
        /\ call' = [call EXCEPT ![s] = [phase |-> "called", expected |-> stage[t].base,
                                        candidate |-> stage[t].candidate]]
    BY DEF Commit, CheckStage, ValidCandidate, Register!Invoke
  <1>2. stage[t].candidate.events = {} \/ Permits(stage[t].candidate.events)
    BY <1>1 DEF ResetInv, ResetsAhead, ResetAhead
  <1>3. \A c \in Sessions : call'[c] = IF c = s
            THEN [phase |-> "called", expected |-> stage[t].base,
                  candidate |-> stage[t].candidate]
            ELSE call[c]
    BY <1>1 DEF ResetInv, Inv, TypeOK
  <1>4. call'[s].candidate = stage[t].candidate /\ \A c \in Sessions \ {s} : call'[c] = call[c]
    BY <1>3
  <1>5. QED BY <1>2, <1>4 DEF Consented

LEMMA NextConsented == ResetInv /\ [Next]_vars => Consented
  <1> SUFFICES ASSUME ResetInv, [Next]_vars PROVE Consented
    OBVIOUS
  <1>1. CASE UNCHANGED vars
    BY <1>1, NoCallBegins DEF vars, ResetInv
  <1>2. ASSUME NEW s \in Sessions, Host(s)
        PROVE  Consented
    <2>1. CASE \/ New(s) \/ Open(s) \/ ReplaceCore(s) \/ ClearFindsNothing(s)
               \/ \E f \in Feedback : Accept(s, f) \/ Undo(s, f)
      <3>1. UNCHANGED call
        BY <2>1 DEF New, Open, ReplaceCore, ClearFindsNothing, Accept, Undo, regVars
      <3>2. QED BY <3>1, NoCallBegins DEF ResetInv
    <2>2. CASE \E t \in Stages : Prepare(s, t) \/ PrepareClear(s, t) \/ Reconcile(s, t)
      <3>1. UNCHANGED call
        BY <2>2 DEF Prepare, PrepareClear, Reconcile, regVars
      <3>2. QED BY <3>1, NoCallBegins DEF ResetInv
    <2>3. CASE Close(s)
      BY <2>3, NoCallBegins DEF Close, ResetInv
    <2>4. CASE CommitReturn(s)
      <3>1. \E o : Register!Answer(s, o)
        BY <2>4 DEF CommitReturn, CommitApplied, CommitNotCommitted, CommitDoubtful
      <3>2. QED BY <3>1, NoCallBegins DEF ResetInv
    <2>5. QED BY <1>2, <2>1, <2>2, <2>3, <2>4, CommitConsented DEF Host
  <1>3. ASSUME NEW c \in ConsentLevels, SetConsent(c)
        PROVE  Consented
    <2>1. UNCHANGED call
      BY <1>3 DEF SetConsent, regVars
    <2>2. QED BY <2>1, NoCallBegins DEF ResetInv
  <1>4. CASE SelectRecord
    <2>1. UNCHANGED call
      BY <1>4 DEF SelectRecord, Register!Select
    <2>2. QED BY <2>1, NoCallBegins DEF ResetInv
  <1>5. CASE Provider
    <2>1. UNCHANGED call \/ \E s \in Sessions : Register!Enter(s)
      BY <1>5 DEF Provider, Register!Settle, Register!Vanish
    <2>2. QED BY <2>1, NoCallBegins DEF ResetInv
  <1>6. QED BY <1>1, <1>2, <1>3, <1>4, <1>5 DEF Next

(***************************************************************************)
(* No history leaves a session past a withdrawal of the permission: commit *)
(* judges the candidate by the permission of its own call (530-541), and a *)
(* reset, which it lets through unjudged, is empty.                        *)
(***************************************************************************)
THEOREM ConsentIsCurrent == Spec => ConsentAtPublication
  <1>1. ResetInv /\ [Next]_vars => ResetInv'
    BY NextKeeps
  <1>2. ResetInv /\ [Next]_vars => Consented
    BY NextConsented
  <1>3. Init => ResetInv
    BY InitResets
  <1>4. Consented =>
           \A s \in Sessions :
              call[s].phase = "idle" /\ call'[s].phase = "called"
                 => call'[s].candidate.events = {} \/ Permits(call'[s].candidate.events)
    BY DEF Consented
  <1>5. QED BY <1>1, <1>2, <1>3, <1>4, PTL DEF Spec, ConsentAtPublication
-----------------------------------------------------------------------------
(***************************************************************************)
(* What a session knows of the register: a call publishes the stage its    *)
(* session commits; whoever publishes onto an empty slot either never knew *)
(* a record or publishes a reset; a publication that selected is the head. *)
(***************************************************************************)
KnowsBase(x, expected, candidate) ==
    expected = NoRecord => x.head = NoRecord \/ candidate.events = {}

CallsKnown ==
    \A s \in Sessions : call[s].phase # "idle" =>
       /\ sess[s] # NoSession
       /\ sess[s].committing # NoStage
       /\ call[s].candidate = stage[sess[s].committing].candidate
       /\ KnowsBase(sess[s], call[s].expected, call[s].candidate)

WriteKnown ==
    write # NoWrite =>
       /\ write.selected => head = write.candidate
       /\ \A s \in Sessions : write.by = s =>
             /\ sess[s] # NoSession
             /\ KnowsBase(sess[s], write.expected, write.candidate)
             /\ call[s].phase = "inside" => write.candidate = call[s].candidate

HeadsShared == RootMayVanish \/ NoForkedHead

Known == CallsKnown /\ WriteKnown /\ HeadsShared

HeadInv == ResetInv /\ Known

(***************************************************************************)
(* The register rests; a session opens from its head, or keeps its own.    *)
(***************************************************************************)
LEMMA QuietKnown ==
  ASSUME HeadInv, UNCHANGED regVars, NEW s \in Sessions, NEW x,
         sess' = [sess EXCEPT ![s] = x], x # NoSession,
         \/ sess[s] = NoSession /\ x.head \in {NoRecord, head}
         \/ Ready(s) /\ x.head = sess[s].head,
         \/ stage' = stage
         \/ \E t \in Stages : \E y : FreeSlot(t) /\ stage' = [stage EXCEPT ![t] = y]
  PROVE  Known'
  <1>1. /\ \A c \in Sessions : sess'[c] = IF c = s THEN x ELSE sess[c]
        /\ head' = head /\ write' = write /\ call' = call
    BY DEF HeadInv, ResetInv, Inv, TypeOK, regVars
  <1>2. \A c \in Sessions : sess[c] # NoSession /\ sess[c].committing # NoStage =>
           stage'[sess[c].committing] = stage[sess[c].committing]
    <2>1. ASSUME NEW t \in Stages, NEW y, FreeSlot(t), stage' = [stage EXCEPT ![t] = y],
                 NEW c \in Sessions, sess[c] # NoSession, sess[c].committing # NoStage
          PROVE  stage'[sess[c].committing] = stage[sess[c].committing]
      <3>1. sess[c].committing \in Stages /\ sess[c].committing # t
        BY <2>1 DEF FreeSlot, HeadInv, ResetInv, Inv, TypeOK, Session
      <3>2. QED BY <2>1, <3>1 DEF HeadInv, ResetInv, Inv, TypeOK
    <2>2. QED BY <2>1
  <1>3. call[s].phase = "idle"
    BY DEF HeadInv, Known, CallsKnown, Ready
  <1>4. CallsKnown'
    BY <1>1, <1>2, <1>3 DEF HeadInv, Known, CallsKnown, KnowsBase
  <1>5. WriteKnown'
    BY <1>1 DEF HeadInv, Known, WriteKnown, KnowsBase, Ready
  <1>6. HeadsShared'
    <2>1. head # NoRecord => head.revision \in Nat
      BY CounterAssumption DEF HeadInv, ResetInv, Inv, TypeOK, MaybeRecord, Record, Counter
    <2>2. CASE RootMayVanish
      BY <2>2 DEF HeadsShared
    <2>3. CASE NoForkedHead
      BY <1>1, <2>1, <2>3 DEF HeadsShared, NoForkedHead, Ready
    <2>4. QED BY <2>2, <2>3 DEF HeadInv, Known, HeadsShared
  <1>7. QED BY <1>4, <1>5, <1>6 DEF Known

(***************************************************************************)
(* A call of s ends: s is gone, keeps its head, or adopts the register's,  *)
(* which it does when nothing it published can still be inside.            *)
(***************************************************************************)
CallLeaves(s) ==
    /\ head' = head
    /\ call' = [call EXCEPT ![s] = Register!IdleCall]
    /\ \/ write' = write
       \/ write' = NoWrite
       \/ /\ write # NoWrite
          /\ write'.selected = write.selected
          /\ write'.expected = write.expected
          /\ write'.candidate = write.candidate
          /\ write'.by \in {write.by, NoOwner}

StagesStay ==
    \A t \in Stages : stage[t] # NoStage => stage'[t].candidate = stage[t].candidate

LEMMA EndedKnown ==
  ASSUME HeadInv, NEW s \in Sessions, NEW x, sess[s] # NoSession,
         sess' = [sess EXCEPT ![s] = x], CallLeaves(s), StagesStay,
         \/ x = NoSession /\ (write' # NoWrite => write'.by # s)
         \/ x # NoSession /\ x.head = sess[s].head
         \/ x # NoSession /\ x.head = head /\ write' = NoWrite
  PROVE  Known'
  <1>1. /\ \A c \in Sessions : sess'[c] = IF c = s THEN x ELSE sess[c]
        /\ \A c \in Sessions : call'[c] = IF c = s THEN Register!IdleCall ELSE call[c]
        /\ Register!IdleCall.phase = "idle"
        /\ head' = head
    BY DEF CallLeaves, Register!IdleCall, HeadInv, ResetInv, Inv, TypeOK
  <1>2. \A c \in Sessions : sess[c] # NoSession /\ sess[c].committing # NoStage =>
           stage'[sess[c].committing].candidate = stage[sess[c].committing].candidate
    BY DEF StagesStay, HeadInv, ResetInv, Inv, Links, SessionLinks, TypeOK, Session
  <1>3. CallsKnown'
    BY <1>1, <1>2 DEF HeadInv, Known, CallsKnown, KnowsBase
  <1>4. WriteKnown'
    BY <1>1, NoOwnerAssumption DEF CallLeaves, HeadInv, Known, WriteKnown, KnowsBase
  <1>5. HeadsShared'
    <2>1. head # NoRecord => head.revision \in Nat
      BY CounterAssumption DEF HeadInv, ResetInv, Inv, TypeOK, MaybeRecord, Record, Counter
    <2>2. CASE RootMayVanish
      BY <2>2 DEF HeadsShared
    <2>3. CASE NoForkedHead
      BY <1>1, <2>1, <2>3 DEF HeadsShared, NoForkedHead
    <2>4. QED BY <2>2, <2>3 DEF HeadInv, Known, HeadsShared
  <1>6. QED BY <1>3, <1>4, <1>5 DEF Known

LEMMA BoundaryLeft ==
  ASSUME HeadInv, write # NoWrite, NEW b \in {write.by, NoOwner}, Register!LeaveBoundary(b)
  PROVE  \/ write' = NoWrite
         \/ /\ write'.selected = write.selected
            /\ write'.expected = write.expected
            /\ write'.candidate = write.candidate
            /\ write'.by = b
  <1>1. write \in Write
    BY DEF HeadInv, ResetInv, Inv, TypeOK
  <1>2. QED BY <1>1 DEF Write, Register!LeaveBoundary

LEMMA AnswerLeaves ==
  ASSUME HeadInv, NEW s \in Sessions, NEW o, Register!Answer(s, o)
  PROVE  /\ CallLeaves(s)
         /\ o = "Applied" => /\ write' = NoWrite
                             /\ sess[s] # NoSession
                             /\ head = stage[sess[s].committing].candidate
  <1>1. head' = head /\ call' = [call EXCEPT ![s] = Register!IdleCall]
    BY DEF Register!Answer
  <1>2. CASE Register!AnswerOutside(s, o)
    BY <1>1, <1>2 DEF Register!AnswerOutside, CallLeaves
  <1>3. CASE Register!AnswerInside(s, o)
    <2>1. write # NoWrite /\ write.by = s /\ call[s].phase = "inside"
      BY <1>3 DEF Register!AnswerInside, HeadInv, ResetInv, Inv, Links, PublicationLinks
    <2>2. write' = NoWrite \/ Register!LeaveBoundary(s)
      BY <1>3 DEF Register!AnswerInside
    <2>3. CallLeaves(s)
      BY <1>1, <2>1, <2>2, BoundaryLeft DEF CallLeaves
    <2>4. o = "Applied" => write.selected /\ write' = NoWrite
      BY <1>3 DEF Register!AnswerInside
    <2>5. /\ sess[s] # NoSession
          /\ write.candidate = stage[sess[s].committing].candidate
          /\ write.selected => head = write.candidate
      BY <2>1 DEF HeadInv, Known, CallsKnown, WriteKnown
    <2>6. QED BY <2>3, <2>4, <2>5
  <1>4. QED BY <1>2, <1>3 DEF Register!Answer

(***************************************************************************)
(* The host's calls.                                                       *)
(***************************************************************************)
LEMMA OpensKnown ==
  ASSUME HeadInv, NEW s \in Sessions, New(s) \/ Open(s)
  PROVE  Known'
  <1>1. CASE New(s)
    <2>1. PICK g \in Generations, k \in Keys :
            sess' = [sess EXCEPT ![s] =
                       [head |-> NoRecord, revision |-> 0, generation |-> g, key |-> k,
                        events |-> {}, undone |-> {}, receipts |-> {}, checkpoint |-> 0,
                        intact |-> TRUE, fenced |-> FALSE, committing |-> NoStage]]
      BY <1>1 DEF New
    <2> DEFINE x == [head |-> NoRecord, revision |-> 0, generation |-> g, key |-> k,
                     events |-> {}, undone |-> {}, receipts |-> {}, checkpoint |-> 0,
                     intact |-> TRUE, fenced |-> FALSE, committing |-> NoStage]
    <2>2. x \in Session /\ x.head = NoRecord
      BY CounterAssumption DEF Session, MaybeRecord, Counter
    <2>3. UNCHANGED regVars /\ stage' = stage /\ sess[s] = NoSession
      BY <1>1 DEF New
    <2> HIDE DEF x
    <2>4. x # NoSession
      BY <2>2, NoSessionAssumption
    <2>5. QED BY <2>1, <2>2, <2>3, <2>4, QuietKnown DEF x
  <1>2. CASE Open(s)
    <2> DEFINE x == [head |-> head, revision |-> head.revision,
                     generation |-> head.generation, key |-> head.key,
                     events |-> head.events, undone |-> head.undone, receipts |-> {},
                     checkpoint |-> head.checkpoint,
                     intact |-> TRUE, fenced |-> FALSE, committing |-> NoStage]
    <2>1. head \in Record
      BY <1>2 DEF Open, HeadInv, ResetInv, Inv, TypeOK, MaybeRecord
    <2>2. x \in Session /\ x.head = head
      BY <2>1 DEF Session, MaybeRecord, Record
    <2>3. /\ sess' = [sess EXCEPT ![s] = x] /\ sess[s] = NoSession
          /\ UNCHANGED regVars /\ stage' = stage
      BY <1>2 DEF Open
    <2> HIDE DEF x
    <2>4. x # NoSession
      BY <2>2, NoSessionAssumption
    <2>5. QED BY <2>2, <2>3, <2>4, QuietKnown
  <1>3. QED BY <1>1, <1>2

LEMMA CloseKnown ==
  ASSUME HeadInv, NEW s \in Sessions, Close(s)
  PROVE  Known'
  <1>1. /\ sess[s] # NoSession /\ sess' = [sess EXCEPT ![s] = NoSession]
        /\ stage' = Disown(stage, s) /\ Register!Kill(s)
    BY DEF Close
  <1>2. head' = head /\ call' = [call EXCEPT ![s] = Register!IdleCall]
    BY <1>1 DEF Register!Kill
  <1>3. CallLeaves(s) /\ (write' # NoWrite => write'.by # s)
    <2>1. CASE write # NoWrite /\ write.by = s
      <3>1. Register!LeaveBoundary(NoOwner)
        BY <1>1, <2>1 DEF Register!Kill
      <3>2. QED BY <1>2, <2>1, <3>1, BoundaryLeft, NoOwnerAssumption DEF CallLeaves
    <2>2. CASE ~(write # NoWrite /\ write.by = s)
      BY <1>1, <1>2, <2>2 DEF Register!Kill, CallLeaves
    <2>3. QED BY <2>1, <2>2
  <1>4. StagesStay
    BY <1>1, DisownKeeps DEF StagesStay, HeadInv, ResetInv, Inv, TypeOK
  <1>5. QED BY <1>1, <1>3, <1>4, EndedKnown

LEMMA CoreStepsKnown ==
  ASSUME HeadInv, NEW s \in Sessions,
         \/ \E f \in Feedback : Accept(s, f) \/ Undo(s, f)
         \/ ReplaceCore(s) \/ ClearFindsNothing(s)
  PROVE  Known'
  <1>1. /\ Ready(s) /\ sess[s] \in Session
        /\ UNCHANGED regVars /\ stage' = stage
    BY DEF Accept, Undo, ReplaceCore, ClearFindsNothing, Ready, HeadInv, ResetInv, Inv, TypeOK
  <1>2. ASSUME NEW x \in Session, sess' = [sess EXCEPT ![s] = x], x.head = sess[s].head
        PROVE  Known'
    BY <1>1, <1>2, QuietKnown, NoSessionAssumption
  <1>3. ASSUME NEW f \in Feedback, Accept(s, f)
        PROVE  Known'
    <2> DEFINE x == [sess[s] EXCEPT !.events = @ \cup {f}, !.receipts = @ \cup {f}]
    <2>1. x \in Session /\ x.head = sess[s].head /\ sess' = [sess EXCEPT ![s] = x]
      BY <1>1, <1>3 DEF Accept, Session
    <2> HIDE DEF x
    <2>2. QED BY <1>2, <2>1
  <1>4. ASSUME NEW f \in Feedback, Undo(s, f)
        PROVE  Known'
    <2> DEFINE x == [sess[s] EXCEPT !.undone = @ \cup {f}]
    <2>1. x \in Session /\ x.head = sess[s].head /\ sess' = [sess EXCEPT ![s] = x]
      BY <1>1, <1>4 DEF Undo, Session
    <2> HIDE DEF x
    <2>2. QED BY <1>2, <2>1
  <1>5. CASE ReplaceCore(s)
    <2> DEFINE x == [sess[s] EXCEPT !.intact = FALSE, !.events = {}, !.undone = {},
                                    !.receipts = {}, !.checkpoint = 0]
    <2>1. 0 \in Counter
      BY CounterAssumption DEF Counter
    <2>2. x \in Session /\ x.head = sess[s].head
      BY <1>1, <2>1 DEF Session
    <2>3. sess' = [sess EXCEPT ![s] = x]
      BY <1>5 DEF ReplaceCore
    <2> HIDE DEF x
    <2>4. QED BY <1>2, <2>2, <2>3
  <1>6. CASE ClearFindsNothing(s)
    <2> DEFINE x == [sess[s] EXCEPT !.fenced = TRUE]
    <2>1. x \in Session /\ x.head = sess[s].head /\ sess' = [sess EXCEPT ![s] = x]
      BY <1>1, <1>6 DEF ClearFindsNothing, Session
    <2> HIDE DEF x
    <2>2. QED BY <1>2, <2>1
  <1>7. QED BY <1>3, <1>4, <1>5, <1>6

LEMMA StagingKnown ==
  ASSUME HeadInv, NEW s \in Sessions, NEW t \in Stages, Prepare(s, t) \/ PrepareClear(s, t)
  PROVE  Known'
  <1>1. /\ Ready(s) /\ sess[s] \in Session /\ FreeSlot(t)
        /\ UNCHANGED regVars /\ \E y : stage' = [stage EXCEPT ![t] = y]
    BY DEF Prepare, PrepareClear, Ready, HeadInv, ResetInv, Inv, TypeOK
  <1>2. ASSUME NEW x \in Session, sess' = [sess EXCEPT ![s] = x], x.head = sess[s].head
        PROVE  Known'
    BY <1>1, <1>2, QuietKnown, NoSessionAssumption
  <1>3. CASE Prepare(s, t)
    <2> DEFINE x == [sess[s] EXCEPT !.checkpoint = @ + 1]
    <2>1. sess[s].checkpoint + 1 \in Counter
      BY <1>1, <1>3, CounterAssumption DEF Prepare, CountersLeft, Session, Counter
    <2>2. x \in Session /\ x.head = sess[s].head /\ sess' = [sess EXCEPT ![s] = x]
      BY <1>1, <1>3, <2>1 DEF Prepare, Session
    <2> HIDE DEF x
    <2>3. QED BY <1>2, <2>2
  <1>4. CASE PrepareClear(s, t)
    <2> DEFINE x == [sess[s] EXCEPT !.fenced = @ \/ head # sess[s].head]
    <2>1. (sess[s].fenced \/ head # sess[s].head) \in BOOLEAN
      OBVIOUS
    <2>2. x \in Session /\ x.head = sess[s].head /\ sess' = [sess EXCEPT ![s] = x]
      BY <1>1, <1>4, <2>1 DEF PrepareClear, Session
    <2> HIDE DEF x
    <2>3. QED BY <1>2, <2>2
  <1>5. QED BY <1>3, <1>4

(***************************************************************************)
(* commit hands a stage on: of the session's own head, or an empty reset.  *)
(***************************************************************************)
LEMMA CommitKnown ==
  ASSUME HeadInv, NEW s \in Sessions, NEW t \in Stages, Commit(s, t)
  PROVE  Known'
  <1> DEFINE x == [sess[s] EXCEPT !.fenced = TRUE, !.committing = t]
             k == [phase |-> "called", expected |-> stage[t].base,
                   candidate |-> stage[t].candidate]
  <1>1. /\ sess[s] \in Session /\ stage[t] # NoStage
        /\ stage[t].reset \/ stage[t].base = sess[s].head
        /\ sess' = [sess EXCEPT ![s] = x] /\ call' = [call EXCEPT ![s] = k]
        /\ UNCHANGED <<stage, head, write>>
    BY DEF Commit, CheckStage, Ready, Register!Invoke, HeadInv, ResetInv, Inv, TypeOK
  <1>2. x \in Session /\ x.head = sess[s].head /\ x.committing = t
    BY <1>1 DEF Session
  <1>3. /\ k.phase = "called" /\ k.expected = stage[t].base
        /\ k.candidate = stage[t].candidate
    OBVIOUS
  <1>4. sess[s].head = NoRecord \/ stage[t].base # NoRecord \/ stage[t].candidate.events = {}
    BY <1>1 DEF HeadInv, ResetInv, ResetsAhead, ResetAhead
  <1> HIDE DEF x, k
  <1>5. /\ \A c \in Sessions : sess'[c] = IF c = s THEN x ELSE sess[c]
        /\ \A c \in Sessions : call'[c] = IF c = s THEN k ELSE call[c]
        /\ x # NoSession /\ sess[s] # NoSession /\ t # NoStage
    BY <1>1, <1>2, NoSessionAssumption, NoStageAssumption DEF HeadInv, ResetInv, Inv, TypeOK
  <1>6. CallsKnown'
    BY <1>1, <1>2, <1>3, <1>4, <1>5 DEF HeadInv, Known, CallsKnown, KnowsBase
  <1>7. WriteKnown'
    BY <1>1, <1>2, <1>3, <1>5 DEF HeadInv, Known, WriteKnown, KnowsBase
  <1>8. HeadsShared'
    BY <1>1, <1>2, <1>5 DEF HeadInv, Known, HeadsShared, NoForkedHead
  <1>9. QED BY <1>6, <1>7, <1>8 DEF Known

(***************************************************************************)
(* Adopting stage t makes its candidate the session's head and takes no    *)
(* candidate away.                                                         *)
(***************************************************************************)
LEMMA AdoptedHead ==
  ASSUME HeadInv, NEW s \in Sessions, NEW t \in Stages, sess[s] # NoSession,
         stage[t] # NoStage, stage[t].owner = s, Adopt(s, t)
  PROVE  /\ StagesStay
         /\ sess' = [sess EXCEPT ![s] = AdoptedSession(s, t)]
         /\ AdoptedSession(s, t) # NoSession
         /\ AdoptedSession(s, t).head = stage[t].candidate
  <1> DEFINE spent == [stage EXCEPT ![t].consumed = TRUE]
             c == stage[t].candidate
  <1>1. /\ sess[s] \in Session /\ stage \in [Stages -> Stage \cup {NoStage}]
        /\ stage' = IF stage[t].reset THEN Disown(spent, s) ELSE spent
        /\ sess' = [sess EXCEPT ![s] = AdoptedSession(s, t)]
    BY DEF Adopt, HeadInv, ResetInv, Inv, TypeOK
  <1>2. AdoptedSession(s, t) # NoSession
    BY AdoptedSessionCovers, NoSessionAssumption DEF HeadInv, ResetInv, Inv, Links
  <1>3. /\ spent \in [Stages -> Stage \cup {NoStage}]
        /\ \A u \in Stages : /\ spent[u] # NoStage <=> stage[u] # NoStage
                             /\ spent[u].candidate = stage[u].candidate
    BY <1>1, SpentStage
  <1> HIDE DEF spent, c
  <1>4. StagesStay
    BY <1>1, <1>3, DisownKeeps DEF StagesStay
  <1>5. AdoptedSession(s, t).head = c
    <2>1. Settled(s, t) \in [head : {c}, revision : {c.revision}, generation : Generations,
                             key : Keys, events : SUBSET Feedback, undone : SUBSET Feedback,
                             receipts : SUBSET Feedback, checkpoint : Counter,
                             intact : BOOLEAN, fenced : BOOLEAN,
                             committing : Stages \cup {NoStage}]
      BY <1>1 DEF Settled, Session, c
    <2>2. QED BY <2>1 DEF AdoptedSession
  <1>6. QED BY <1>1, <1>2, <1>4, <1>5 DEF c

LEMMA CommitReturnKnown ==
  ASSUME HeadInv, NEW s \in Sessions, CommitReturn(s)
  PROVE  Known'
  <1> DEFINE t == sess[s].committing
  <1>1. sess[s] # NoSession /\ t # NoStage /\ sess[s] \in Session
    BY DEF CommitReturn, HeadInv, ResetInv, Inv, TypeOK
  <1>2. t \in Stages /\ stage[t] # NoStage /\ stage[t].owner = s
    BY <1>1 DEF HeadInv, ResetInv, Inv, Links, Session, SessionLinks
  <1>3. CASE CommitApplied(s, t)
    <2>1. CallLeaves(s) /\ write' = NoWrite /\ head = stage[t].candidate
      BY <1>3, AnswerLeaves DEF CommitApplied
    <2>2. /\ StagesStay
          /\ sess' = [sess EXCEPT ![s] = AdoptedSession(s, t)]
          /\ AdoptedSession(s, t) # NoSession
          /\ AdoptedSession(s, t).head = stage[t].candidate
      BY <1>1, <1>2, <1>3, AdoptedHead DEF CommitApplied
    <2>3. QED BY <1>1, <2>1, <2>2, EndedKnown
  <1>4. CASE CommitNotCommitted(s, t) \/ CommitDoubtful(s, t)
    <2>1. PICK b \in BOOLEAN :
            sess' = [sess EXCEPT ![s].fenced = b, ![s].committing = NoStage]
      BY <1>4 DEF CommitNotCommitted, CommitDoubtful, RecoveryRequired
    <2> DEFINE x == [sess[s] EXCEPT !.fenced = b, !.committing = NoStage]
    <2>2. x \in Session /\ x.head = sess[s].head /\ sess' = [sess EXCEPT ![s] = x]
      BY <1>1, <2>1 DEF Session
    <2>3. CallLeaves(s)
      BY <1>4, AnswerLeaves DEF CommitNotCommitted, CommitDoubtful
    <2>4. StagesStay
      BY <1>4 DEF CommitNotCommitted, CommitDoubtful, StagesStay
    <2> HIDE DEF x
    <2>5. x # NoSession
      BY <2>2, NoSessionAssumption
    <2>6. QED BY <1>1, <2>2, <2>3, <2>4, <2>5, EndedKnown
  <1>5. QED BY <1>3, <1>4 DEF CommitReturn

(***************************************************************************)
(* reconcile reads the register when nothing is inside it.                 *)
(***************************************************************************)
LEMMA ReconcileKnown ==
  ASSUME HeadInv, NEW s \in Sessions, NEW t \in Stages, Reconcile(s, t)
  PROVE  Known'
  <1>1. /\ Ready(s) /\ sess[s] # NoSession /\ sess[s] \in Session
        /\ stage[t] # NoStage /\ stage[t].owner = s
        /\ write = NoWrite /\ UNCHANGED regVars
    BY DEF Reconcile, Ready, CheckStage, Register!CanLoad, HeadInv, ResetInv, Inv, TypeOK
  <1>2. CASE ReconcileApplied(s, t)
    <2>1. /\ StagesStay
          /\ sess' = [sess EXCEPT ![s] = AdoptedSession(s, t)]
          /\ AdoptedSession(s, t) # NoSession
          /\ AdoptedSession(s, t).head = stage[t].candidate
      BY <1>1, <1>2, AdoptedHead DEF ReconcileApplied
    <2>2. head = stage[t].candidate
      BY <1>2 DEF ReconcileApplied, Selected
    <2>3. call[s].phase = "idle"
      BY <1>1 DEF HeadInv, Known, CallsKnown, Ready
    <2> DEFINE x == AdoptedSession(s, t)
    <2> HIDE DEF x
    <2>4. /\ \A c \in Sessions : sess'[c] = IF c = s THEN x ELSE sess[c]
          /\ x # NoSession /\ x.head = head
          /\ head' = head /\ call' = call /\ write' = NoWrite
      BY <1>1, <2>1, <2>2 DEF x, regVars, HeadInv, ResetInv, Inv, TypeOK
    <2>5. \A c \in Sessions : sess[c] # NoSession /\ sess[c].committing # NoStage =>
             stage'[sess[c].committing].candidate = stage[sess[c].committing].candidate
      BY <2>1 DEF StagesStay, HeadInv, ResetInv, Inv, Links, SessionLinks, TypeOK, Session
    <2>6. CallsKnown'
      BY <2>3, <2>4, <2>5 DEF HeadInv, Known, CallsKnown, KnowsBase
    <2>7. WriteKnown'
      BY <2>4 DEF WriteKnown
    <2>8. HeadsShared'
      <3>1. head # NoRecord => head.revision \in Nat
        BY CounterAssumption
        DEF HeadInv, ResetInv, Inv, TypeOK, MaybeRecord, Record, Counter
      <3>2. CASE RootMayVanish
        BY <3>2 DEF HeadsShared
      <3>3. CASE NoForkedHead
        BY <2>4, <3>1, <3>3 DEF HeadsShared, NoForkedHead
      <3>4. QED BY <3>2, <3>3 DEF HeadInv, Known, HeadsShared
    <2>9. QED BY <2>6, <2>7, <2>8 DEF Known
  <1>3. CASE ReconcileUnchanged(s, t) \/ ReconcileConflict(s, t)
    <2>1. PICK b \in BOOLEAN : sess' = [sess EXCEPT ![s].fenced = b] /\ stage' = stage
      BY <1>3 DEF ReconcileUnchanged, ReconcileConflict, RecoveryRequired
    <2> DEFINE x == [sess[s] EXCEPT !.fenced = b]
    <2>2. x \in Session /\ x.head = sess[s].head /\ sess' = [sess EXCEPT ![s] = x]
      BY <1>1, <2>1 DEF Session
    <2> HIDE DEF x
    <2>3. x # NoSession
      BY <2>2, NoSessionAssumption
    <2>4. QED BY <1>1, <2>1, <2>2, <2>3, QuietKnown
  <1>4. QED BY <1>2, <1>3 DEF Reconcile

(***************************************************************************)
(* The register's steps: what enters is the caller's, what is selected is  *)
(* one revision above every head that a session knows.                     *)
(***************************************************************************)
LEMMA ProviderKnown ==
  ASSUME HeadInv, SelectRecord \/ Provider
  PROVE  Known'
  <1>1. UNCHANGED <<sess, stage>>
    BY DEF SelectRecord, Provider
  <1>2. ASSUME NEW s \in Sessions, Register!Enter(s)
        PROVE  Known'
    <2>1. /\ call[s].phase = "called" /\ write = NoWrite /\ head' = head
          /\ call' = [call EXCEPT ![s].phase = "inside"]
          /\ write' = [by |-> s, expected |-> call[s].expected,
                       candidate |-> call[s].candidate, selected |-> FALSE]
      BY <1>2 DEF Register!Enter
    <2>2. \A c \in Sessions : /\ call'[c].expected = call[c].expected
                              /\ call'[c].candidate = call[c].candidate
                              /\ call'[c].phase # "idle" => call[c].phase # "idle"
      BY <2>1 DEF HeadInv, ResetInv, Inv, TypeOK, Call
    <2>3. /\ write'.by = s /\ write'.expected = call[s].expected
          /\ write'.candidate = call[s].candidate /\ ~write'.selected
      BY <2>1
    <2>4. CallsKnown'
      BY <1>1, <2>2 DEF HeadInv, Known, CallsKnown, KnowsBase
    <2>5. WriteKnown'
      BY <1>1, <2>1, <2>2, <2>3 DEF HeadInv, Known, CallsKnown, WriteKnown, KnowsBase
    <2>6. HeadsShared'
      BY <1>1, <2>1 DEF HeadInv, Known, HeadsShared, NoForkedHead
    <2>7. QED BY <2>4, <2>5, <2>6 DEF Known
  <1>3. CASE SelectRecord
    <2>1. /\ write \in Write /\ head = write.expected /\ head' = write.candidate
          /\ write' = [write EXCEPT !.selected = TRUE] /\ call' = call
      BY <1>3 DEF SelectRecord, Register!Select, Register!Compares, HeadInv, ResetInv, Inv, TypeOK
    <2>2. /\ write'.by = write.by /\ write'.expected = write.expected
          /\ write'.candidate = write.candidate /\ write # NoWrite
      BY <2>1, NoWriteAssumption DEF Write
    <2>3. CallsKnown'
      BY <1>1, <2>1 DEF HeadInv, Known, CallsKnown, KnowsBase
    <2>4. WriteKnown'
      BY <1>1, <2>1, <2>2 DEF HeadInv, Known, WriteKnown, KnowsBase
    <2>5. HeadsShared'
      <3>1. CASE RootMayVanish
        BY <3>1 DEF HeadsShared
      <3>2. CASE NoForkedHead
        <4>1. /\ head' \in Record /\ head' # NoRecord
              /\ head # NoRecord => head'.revision = head.revision + 1
          BY <2>1, <2>2, NoRecordAssumption
          DEF Write, HeadInv, ResetInv, Inv, Links, PublicationLinks, Ledger!Follows,
              Ledger!Extends, Ledger!Clears
        <4>2. head # NoRecord => head.revision \in Nat
          BY CounterAssumption
          DEF HeadInv, ResetInv, Inv, TypeOK, MaybeRecord, Record, Counter
        <4>3. \A c \in Sessions : sess[c] # NoSession /\ sess[c].head # NoRecord =>
                 sess[c].head.revision \in Nat
          BY CounterAssumption
          DEF HeadInv, ResetInv, Inv, TypeOK, Session, MaybeRecord, Record, Counter
        <4>4. QED BY <1>1, <3>2, <4>1, <4>2, <4>3 DEF HeadsShared, NoForkedHead
      <3>3. QED BY <3>1, <3>2 DEF HeadInv, Known, HeadsShared
    <2>6. QED BY <2>3, <2>4, <2>5 DEF Known
  <1>4. CASE Register!Settle
    BY <1>1, <1>4
    DEF Register!Settle, HeadInv, Known, CallsKnown, WriteKnown, HeadsShared, NoForkedHead,
        KnowsBase
  <1>5. CASE Register!Vanish
    <2>1. RootMayVanish /\ write = NoWrite /\ write' = write /\ call' = call
      BY <1>5 DEF Register!Vanish
    <2>2. QED
      BY <1>1, <2>1 DEF HeadInv, Known, CallsKnown, WriteKnown, HeadsShared, KnowsBase
  <1>6. QED BY <1>2, <1>3, <1>4, <1>5 DEF Provider

LEMMA NextKnown == HeadInv /\ [Next]_vars => HeadInv'
  <1> SUFFICES ASSUME HeadInv, [Next]_vars PROVE Known'
    BY NextKeeps DEF HeadInv
  <1>1. ASSUME UNCHANGED <<head, write, call, sess, stage>>
        PROVE  Known'
    BY <1>1 DEF HeadInv, Known, CallsKnown, WriteKnown, HeadsShared, NoForkedHead, KnowsBase
  <1>2. CASE UNCHANGED vars
    BY <1>1, <1>2 DEF vars
  <1>3. ASSUME NEW s \in Sessions, Host(s)
        PROVE  Known'
    BY <1>3, OpensKnown, CloseKnown, CoreStepsKnown, StagingKnown, CommitKnown,
       CommitReturnKnown, ReconcileKnown DEF Host
  <1>4. ASSUME NEW c \in ConsentLevels, SetConsent(c)
        PROVE  Known'
    BY <1>1, <1>4 DEF SetConsent, regVars
  <1>5. QED BY <1>2, <1>3, <1>4, ProviderKnown DEF Next

LEMMA InitKnown == Init => HeadInv
  <1> SUFFICES ASSUME Init PROVE HeadInv
    OBVIOUS
  <1>1. \A c \in Sessions : call[c].phase = "idle"
    BY DEF Init, Register!RegInit, Register!IdleCall
  <1>2. Known
    BY <1>1 DEF Init, Register!RegInit, Known, CallsKnown, WriteKnown, HeadsShared, NoForkedHead
  <1>3. QED BY <1>2, InitResets DEF HeadInv

(***************************************************************************)
(* As long as the protected root is not lost, no two sessions believe in   *)
(* different records of one revision, whatever answers were lost and       *)
(* whichever writes came late: adopt (547-566) takes a candidate for the   *)
(* head only where the register has it selected.                           *)
(***************************************************************************)
THEOREM HeadsAgree == ASSUME ~RootMayVanish PROVE Spec => []NoForkedHead
  <1>1. HeadInv => NoForkedHead
    BY DEF HeadInv, Known, HeadsShared
  <1>2. Init => HeadInv
    BY InitKnown
  <1>3. HeadInv /\ [Next]_vars => HeadInv'
    BY NextKnown
  <1>4. QED BY <1>1, <1>2, <1>3, PTL DEF Spec

(***************************************************************************)
(* Who selects onto an empty slot never knew a record, or brings nothing.  *)
(***************************************************************************)
LEMMA NextRefounds ==
  HeadInv /\ Next /\ head = NoRecord /\ head' # NoRecord =>
     \A s \in Sessions : write.by = s => sess[s].head = NoRecord \/ head'.events = {}
  <1> SUFFICES ASSUME HeadInv, Next, head = NoRecord, head' # NoRecord,
                      NEW s \in Sessions, write.by = s
               PROVE  sess[s].head = NoRecord \/ head'.events = {}
    OBVIOUS
  <1>1. Register!Select
    BY HeadMoves DEF HeadInv, ResetInv, Register!Vanish
  <1>2. write # NoWrite /\ head = write.expected /\ head' = write.candidate
    BY <1>1 DEF Register!Select, Register!Compares
  <1>3. QED BY <1>2 DEF HeadInv, Known, WriteKnown, KnowsBase

(***************************************************************************)
(* A root that was lost is refounded by a session that never knew a record *)
(* or by an empty reset, never with the history of one that did (check_    *)
(* stage, 517-529: only a reset may have a base other than the head).      *)
(***************************************************************************)
THEOREM LossIsFinal == Spec => LostHistoryStaysLost
  <1>1. HeadInv /\ [Next]_vars =>
          [head = NoRecord /\ head' # NoRecord =>
             \A s \in Sessions : write.by = s =>
                sess[s].head = NoRecord \/ head'.events = {}]_vars
    BY NextRefounds
  <1>2. Init => HeadInv
    BY InitKnown
  <1>3. HeadInv /\ [Next]_vars => HeadInv'
    BY NextKnown
  <1>4. QED BY <1>1, <1>2, <1>3, PTL DEF Spec, LostHistoryStaysLost
-----------------------------------------------------------------------------
(***************************************************************************)
(* The fence of a session.  An open one means that the session knows every *)
(* record selected on its behalf and has none under way; while it commits  *)
(* a save, it knows all but that save.                                     *)
(***************************************************************************)
Quiet(s) == write # NoWrite => write.by # s

KnowsOwn(s) == published[s] <= sess[s].revision

OwnIsBelow(s) ==
    /\ published[s] # 0 => head # NoRecord /\ published[s] <= head.revision
    /\ write # NoWrite /\ write.by = s /\ write.selected =>
          published[s] <= write.candidate.revision
    /\ sess[s] = NoSession => published[s] = 0

OpenFence(s) ==
    sess[s] # NoSession /\ ~sess[s].fenced =>
       sess[s].committing = NoStage /\ KnowsOwn(s) /\ Quiet(s)

SaveKnows(s) ==
    sess[s] # NoSession /\ sess[s].committing # NoStage
    /\ ~stage[sess[s].committing].reset =>
       /\ call[s].phase = "called" => KnowsOwn(s) /\ Quiet(s)
       /\ call[s].phase = "inside" => write.selected \/ KnowsOwn(s)

Fence(s) == OwnIsBelow(s) /\ OpenFence(s) /\ SaveKnows(s)

FenceInv == HeadInv /\ \A s \in Sessions : Fence(s)

(***************************************************************************)
(* A step of the others as a session sees it: nothing of its own moves.    *)
(***************************************************************************)
ResetsStay ==
    \A t \in Stages : stage[t] # NoStage => stage'[t].reset = stage[t].reset

Elsewhere(s) ==
    /\ sess'[s] = sess[s] /\ published'[s] = published[s] /\ call'[s] = call[s]
    /\ write' # NoWrite /\ write'.by = s => write' = write
    /\ call[s].phase = "inside" => write' = write
    /\ head # NoRecord => head' # NoRecord /\ head'.revision >= head.revision
    /\ sess[s] # NoSession /\ sess[s].committing # NoStage =>
          stage'[sess[s].committing].reset = stage[sess[s].committing].reset

LEMMA Numbers ==
  ASSUME HeadInv
  PROVE  /\ \A s \in Sessions : published[s] \in Nat
         /\ \A s \in Sessions : sess[s] # NoSession => sess[s] \in Session /\ sess[s].revision \in Nat
         /\ head # NoRecord => head \in Record /\ head.revision \in Nat
         /\ write # NoWrite => write \in Write /\ write.candidate.revision \in Nat
  BY CounterAssumption
  DEF HeadInv, ResetInv, Inv, TypeOK, Counter, Session, MaybeRecord, Record, Write

LEMMA ElsewhereKeeps ==
  ASSUME FenceInv, NEW s \in Sessions, Elsewhere(s), head' # NoRecord => head'.revision \in Nat
  PROVE  Fence(s)'
  <1>1. Fence(s) /\ HeadInv
    BY DEF FenceInv
  <1>2. OwnIsBelow(s)'
    BY <1>1, Numbers DEF Fence, OwnIsBelow, Elsewhere
  <1>3. OpenFence(s)'
    BY <1>1 DEF Fence, OpenFence, Elsewhere, KnowsOwn, Quiet
  <1>4. SaveKnows(s)'
    BY <1>1 DEF Fence, SaveKnows, Elsewhere, KnowsOwn, Quiet
  <1>5. QED BY <1>2, <1>3, <1>4 DEF Fence

(***************************************************************************)
(* The session itself ends outside any call of its own: it is fenced, or   *)
(* it knows what it published.                                             *)
(***************************************************************************)
LEMMA RestsKeeps ==
  ASSUME FenceInv, NEW s \in Sessions, NEW x, x # NoSession, x.committing = NoStage,
         sess' = [sess EXCEPT ![s] = x], published' = published, head' = head,
         UNCHANGED regVars \/ CallLeaves(s),
         x.fenced \/ (published[s] <= x.revision /\ Quiet(s)')
  PROVE  Fence(s)'
  <1>1. sess'[s] = x /\ Fence(s) /\ HeadInv
    BY DEF FenceInv, HeadInv, ResetInv, Inv, TypeOK
  <1>2. write' # NoWrite /\ write'.by = s =>
           /\ write # NoWrite /\ write.by = s
           /\ write'.selected = write.selected /\ write'.candidate = write.candidate
    BY NoOwnerAssumption DEF regVars, CallLeaves
  <1>3. OwnIsBelow(s)'
    BY <1>1, <1>2 DEF Fence, OwnIsBelow
  <1>4. OpenFence(s)'
    BY <1>1 DEF OpenFence, KnowsOwn
  <1>5. SaveKnows(s)'
    BY <1>1 DEF SaveKnows
  <1>6. QED BY <1>3, <1>4, <1>5 DEF Fence

(***************************************************************************)
(* What a step of session s leaves of the others.                          *)
(***************************************************************************)
LEMMA OthersElsewhere ==
  ASSUME FenceInv, NEW s \in Sessions, NEW c \in Sessions, c # s,
         NEW x, sess' = [sess EXCEPT ![s] = x], published'[c] = published[c], head' = head,
         \/ UNCHANGED regVars
         \/ Register!Kill(s) \/ \E o : Register!Answer(s, o)
         \/ \E e, r : Register!Invoke(s, e, r),
         \/ ResetsStay
         \/ \E t \in Stages : \E y : FreeSlot(t) /\ stage' = [stage EXCEPT ![t] = y]
  PROVE  Fence(c)'
  <1>1. HeadInv /\ sess'[c] = sess[c]
    BY DEF FenceInv, HeadInv, ResetInv, Inv, TypeOK
  <1>2. call'[c] = call[c]
    BY <1>1 DEF regVars, Register!Kill, Register!Answer, Register!Invoke, HeadInv, ResetInv, Inv,
       TypeOK
  <1>3. sess[c] # NoSession /\ sess[c].committing # NoStage =>
           stage'[sess[c].committing].reset = stage[sess[c].committing].reset
    <2>1. SUFFICES ASSUME sess[c] # NoSession, sess[c].committing # NoStage
                   PROVE  stage'[sess[c].committing].reset = stage[sess[c].committing].reset
      OBVIOUS
    <2>2. sess[c].committing \in Stages /\ stage[sess[c].committing] # NoStage
      BY <1>1, <2>1 DEF HeadInv, ResetInv, Inv, Links, SessionLinks, TypeOK, Session
    <2>3. CASE ResetsStay
      BY <2>2, <2>3 DEF ResetsStay
    <2>4. ASSUME NEW t \in Stages, NEW y, FreeSlot(t), stage' = [stage EXCEPT ![t] = y]
          PROVE  stage'[sess[c].committing] = stage[sess[c].committing]
      <3>1. sess[c].committing # t
        BY <2>1, <2>4 DEF FreeSlot
      <3>2. QED BY <1>1, <2>2, <2>4, <3>1 DEF HeadInv, ResetInv, Inv, TypeOK
    <2>5. QED BY <2>3, <2>4
  <1>4. call[s].phase = "inside" => write # NoWrite /\ write.by = s
    BY <1>1 DEF HeadInv, ResetInv, Inv, Links, PublicationLinks
  <1>5. call[c].phase = "inside" => write # NoWrite /\ write.by = c
    BY <1>1 DEF HeadInv, ResetInv, Inv, Links, PublicationLinks
  <1>6. \/ write' = write
        \/ /\ write # NoWrite /\ write.by = s
           /\ write' = NoWrite \/ write'.by \in {s, NoOwner}
    <2>1. ASSUME write # NoWrite, write.by = s, NEW b \in {s, NoOwner}, Register!LeaveBoundary(b)
          PROVE  write' = NoWrite \/ write'.by \in {s, NoOwner}
      BY <1>1, <2>1, BoundaryLeft
    <2>2. CASE UNCHANGED regVars \/ \E e, r : Register!Invoke(s, e, r)
      BY <2>2 DEF regVars, Register!Invoke
    <2>3. CASE Register!Kill(s)
      BY <2>1, <2>3 DEF Register!Kill
    <2>4. ASSUME NEW o, Register!Answer(s, o)
          PROVE  \/ write' = write
                 \/ /\ write # NoWrite /\ write.by = s
                    /\ write' = NoWrite \/ write'.by \in {s, NoOwner}
      BY <1>4, <2>1, <2>4 DEF Register!Answer, Register!AnswerOutside, Register!AnswerInside
    <2>5. QED BY <2>2, <2>3, <2>4
  <1>7. /\ write' # NoWrite /\ write'.by = c => write' = write
        /\ call[c].phase = "inside" => write' = write
    BY <1>5, <1>6, NoOwnerAssumption
  <1>8. head' # NoRecord => head'.revision \in Nat /\ head'.revision >= head.revision
    BY <1>1, Numbers
  <1>9. Elsewhere(c)
    BY <1>1, <1>2, <1>3, <1>7, <1>8 DEF Elsewhere
  <1>10. QED BY <1>8, <1>9, ElsewhereKeeps

(***************************************************************************)
(* Opening, ending, and the calls that neither publish nor adopt.          *)
(***************************************************************************)
LEMMA OpensFence ==
  ASSUME FenceInv, NEW s \in Sessions, New(s) \/ Open(s), NEW c \in Sessions
  PROVE  Fence(c)'
  <1>1. /\ sess[s] = NoSession /\ UNCHANGED <<regVars, stage, consent, acceptedIn, published>>
        /\ Fence(s) /\ HeadInv
    BY DEF New, Open, FenceInv
  <1>2. PICK x : /\ sess' = [sess EXCEPT ![s] = x] /\ x # NoSession
                 /\ x.committing = NoStage /\ x.revision \in Nat
    <2>1. CASE New(s)
      <3>1. PICK g \in Generations, k \in Keys :
              sess' = [sess EXCEPT ![s] =
                         [head |-> NoRecord, revision |-> 0, generation |-> g, key |-> k,
                          events |-> {}, undone |-> {}, receipts |-> {}, checkpoint |-> 0,
                          intact |-> TRUE, fenced |-> FALSE, committing |-> NoStage]]
        BY <2>1 DEF New
      <3> DEFINE x == [head |-> NoRecord, revision |-> 0, generation |-> g, key |-> k,
                       events |-> {}, undone |-> {}, receipts |-> {}, checkpoint |-> 0,
                       intact |-> TRUE, fenced |-> FALSE, committing |-> NoStage]
      <3>2. x \in Session /\ x.committing = NoStage /\ x.revision = 0
        BY CounterAssumption DEF Session, MaybeRecord, Counter
      <3>3. sess' = [sess EXCEPT ![s] = x]
        BY <3>1
      <3> HIDE DEF x
      <3>4. x # NoSession
        BY <3>2, NoSessionAssumption
      <3>5. x.revision \in Nat
        BY <3>2
      <3>6. QED BY <3>2, <3>3, <3>4, <3>5
    <2>2. CASE Open(s)
      <3> DEFINE x == [head |-> head, revision |-> head.revision,
                       generation |-> head.generation, key |-> head.key,
                       events |-> head.events, undone |-> head.undone, receipts |-> {},
                       checkpoint |-> head.checkpoint,
                       intact |-> TRUE, fenced |-> FALSE, committing |-> NoStage]
      <3>1. head \in Record /\ head.revision \in Nat
        BY <1>1, <2>2, Numbers DEF Open
      <3>2. x \in Session /\ x.committing = NoStage /\ x.revision = head.revision
        BY <3>1 DEF Session, MaybeRecord, Record
      <3>3. sess' = [sess EXCEPT ![s] = x]
        BY <2>2 DEF Open
      <3> HIDE DEF x
      <3>4. QED BY <3>1, <3>2, <3>3, NoSessionAssumption
    <2>3. QED BY <2>1, <2>2
  <1>3. CASE c = s
    <2>1. published[s] = 0 /\ Quiet(s)'
      BY <1>1 DEF Fence, OwnIsBelow, Quiet, regVars, HeadInv, Known, WriteKnown
    <2>2. published[s] <= x.revision
      BY <1>2, <2>1
    <2>3. UNCHANGED regVars /\ published' = published /\ head' = head
      BY <1>1 DEF regVars
    <2>4. QED BY <1>2, <1>3, <2>1, <2>2, <2>3, RestsKeeps
  <1>4. CASE c # s
    BY <1>1, <1>2, <1>4, OthersElsewhere DEF regVars, ResetsStay
  <1>5. QED BY <1>3, <1>4

LEMMA CloseFence ==
  ASSUME FenceInv, NEW s \in Sessions, Close(s), NEW c \in Sessions
  PROVE  Fence(c)'
  <1>1. /\ sess' = [sess EXCEPT ![s] = NoSession] /\ stage' = Disown(stage, s)
        /\ Register!Kill(s) /\ published' = [published EXCEPT ![s] = 0]
        /\ head' = head /\ HeadInv
    BY DEF Close, Register!Kill, FenceInv
  <1>2. sess'[s] = NoSession /\ published'[s] = 0 /\ (c # s => published'[c] = published[c])
    BY <1>1 DEF HeadInv, ResetInv, Inv, TypeOK
  <1>3. CASE c = s
    <2>1. write' # NoWrite /\ write'.by = s => FALSE
      <3>1. CASE write # NoWrite /\ write.by = s
        BY <1>1, <3>1, BoundaryLeft, NoOwnerAssumption DEF Register!Kill
      <3>2. CASE ~(write # NoWrite /\ write.by = s)
        BY <1>1, <3>2 DEF Register!Kill
      <3>3. QED BY <3>1, <3>2
    <2>2. QED BY <1>2, <1>3, <2>1 DEF Fence, OwnIsBelow, OpenFence, SaveKnows
  <1>4. CASE c # s
    <2>1. ResetsStay
      BY <1>1, DisownKeeps DEF ResetsStay, HeadInv, ResetInv, Inv, TypeOK
    <2>2. QED BY <1>1, <1>2, <1>4, <2>1, OthersElsewhere
  <1>5. QED BY <1>3, <1>4

LEMMA QuietFence ==
  ASSUME FenceInv, NEW s \in Sessions, NEW x \in Session, Ready(s),
         sess' = [sess EXCEPT ![s] = x], UNCHANGED <<regVars, published>>,
         x.committing = NoStage, x.revision = sess[s].revision,
         sess[s].fenced => x.fenced,
         \/ stage' = stage
         \/ \E t \in Stages : \E y : FreeSlot(t) /\ stage' = [stage EXCEPT ![t] = y],
         NEW c \in Sessions
  PROVE  Fence(c)'
  <1>1. x # NoSession /\ HeadInv /\ Fence(s) /\ UNCHANGED regVars /\ published' = published
        /\ head' = head
    BY NoSessionAssumption DEF FenceInv, regVars
  <1>2. CASE c = s
    <2>1. x.fenced \/ (published[s] <= x.revision /\ Quiet(s)')
      BY <1>1 DEF Fence, OpenFence, KnowsOwn, Quiet, Ready, regVars
    <2>2. QED BY <1>1, <1>2, <2>1, RestsKeeps
  <1>3. CASE c # s
    BY <1>1, <1>3, OthersElsewhere DEF ResetsStay
  <1>4. QED BY <1>2, <1>3

LEMMA CoreStepsFence ==
  ASSUME FenceInv, NEW s \in Sessions,
         \/ \E f \in Feedback : Accept(s, f) \/ Undo(s, f)
         \/ ReplaceCore(s) \/ ClearFindsNothing(s)
         \/ \E t \in Stages : Prepare(s, t) \/ PrepareClear(s, t),
         NEW c \in Sessions
  PROVE  Fence(c)'
  <1>1. /\ Ready(s) /\ sess[s] \in Session /\ sess[s].committing = NoStage
        /\ UNCHANGED <<regVars, published>>
        /\ \/ stage' = stage
           \/ \E t \in Stages : \E y : FreeSlot(t) /\ stage' = [stage EXCEPT ![t] = y]
    BY DEF Accept, Undo, ReplaceCore, ClearFindsNothing, Prepare, PrepareClear, Ready, FenceInv,
       HeadInv, ResetInv, Inv, TypeOK
  <1> DEFINE Moves(x) == /\ sess' = [sess EXCEPT ![s] = x] /\ x.committing = NoStage
                         /\ x.revision = sess[s].revision /\ (sess[s].fenced => x.fenced)
  <1>2. \E x \in Session : Moves(x)
    <2>1. ASSUME NEW f \in Feedback, Accept(s, f)
          PROVE  \E x \in Session : Moves(x)
      <3> DEFINE x == [sess[s] EXCEPT !.events = @ \cup {f}, !.receipts = @ \cup {f}]
      <3>1. x \in Session
        BY <1>1 DEF Session
      <3>2. /\ x.committing = NoStage /\ x.revision = sess[s].revision
            /\ x.fenced = sess[s].fenced
        BY <1>1 DEF Session
      <3>3. sess' = [sess EXCEPT ![s] = x]
        BY <2>1 DEF Accept
      <3> HIDE DEF x
      <3>4. QED BY <3>1, <3>2, <3>3
    <2>2. ASSUME NEW f \in Feedback, Undo(s, f)
          PROVE  \E x \in Session : Moves(x)
      <3> DEFINE x == [sess[s] EXCEPT !.undone = @ \cup {f}]
      <3>1. x \in Session
        BY <1>1 DEF Session
      <3>2. /\ x.committing = NoStage /\ x.revision = sess[s].revision
            /\ x.fenced = sess[s].fenced
        BY <1>1 DEF Session
      <3>3. sess' = [sess EXCEPT ![s] = x]
        BY <2>2 DEF Undo
      <3> HIDE DEF x
      <3>4. QED BY <3>1, <3>2, <3>3
    <2>4. CASE ReplaceCore(s)
      <3> DEFINE x == [sess[s] EXCEPT !.intact = FALSE, !.events = {}, !.undone = {},
                                      !.receipts = {}, !.checkpoint = 0]
      <3>1. 0 \in Counter
        BY CounterAssumption DEF Counter
      <3>2. /\ x \in Session /\ x.committing = NoStage /\ x.revision = sess[s].revision
            /\ sess[s].fenced => x.fenced
        BY <1>1, <3>1 DEF Session
      <3>3. sess' = [sess EXCEPT ![s] = x]
        BY <2>4 DEF ReplaceCore
      <3> HIDE DEF x
      <3>4. QED BY <3>2, <3>3
    <2>5. CASE ClearFindsNothing(s)
      <3> DEFINE x == [sess[s] EXCEPT !.fenced = TRUE]
      <3>1. /\ x \in Session /\ x.committing = NoStage /\ x.revision = sess[s].revision
            /\ sess[s].fenced => x.fenced
        BY <1>1 DEF Session
      <3>2. sess' = [sess EXCEPT ![s] = x]
        BY <2>5 DEF ClearFindsNothing
      <3> HIDE DEF x
      <3>3. QED BY <3>1, <3>2
    <2>6. ASSUME NEW t \in Stages, Prepare(s, t)
          PROVE  \E x \in Session : Moves(x)
      <3> DEFINE x == [sess[s] EXCEPT !.checkpoint = @ + 1]
      <3>1. sess[s].checkpoint + 1 \in Counter
        BY <1>1, <2>6, CounterAssumption DEF Prepare, CountersLeft, Counter, Session
      <3>2. /\ x \in Session /\ x.committing = NoStage /\ x.revision = sess[s].revision
            /\ sess[s].fenced => x.fenced
        BY <1>1, <3>1 DEF Session
      <3>3. sess' = [sess EXCEPT ![s] = x]
        BY <2>6 DEF Prepare
      <3> HIDE DEF x
      <3>4. QED BY <3>2, <3>3
    <2>7. ASSUME NEW t \in Stages, PrepareClear(s, t)
          PROVE  \E x \in Session : Moves(x)
      <3> DEFINE b == sess[s].fenced \/ head # sess[s].head
                 x == [sess[s] EXCEPT !.fenced = b]
      <3>1. b \in BOOLEAN
        BY <1>1 DEF Session
      <3>2. /\ x \in Session /\ x.committing = NoStage /\ x.revision = sess[s].revision
            /\ x.fenced = b
        BY <1>1, <3>1 DEF Session
      <3>3. sess' = [sess EXCEPT ![s] = x]
        BY <2>7 DEF PrepareClear
      <3> HIDE DEF x
      <3>4. QED BY <3>2, <3>3
    <2>8. QED BY <2>1, <2>2, <2>4, <2>5, <2>6, <2>7
  <1>3. QED BY <1>1, <1>2, QuietFence

(***************************************************************************)
(* commit of a save begins behind an open fence, that of a reset behind    *)
(* any.                                                                    *)
(***************************************************************************)
LEMMA CommitFence ==
  ASSUME FenceInv, NEW s \in Sessions, NEW t \in Stages, Commit(s, t), NEW c \in Sessions
  PROVE  Fence(c)'
  <1> DEFINE x == [sess[s] EXCEPT !.fenced = TRUE, !.committing = t]
  <1>1. /\ sess[s] # NoSession /\ sess[s] \in Session /\ stage[t] # NoStage
        /\ stage[t].reset \/ Healthy(s)
        /\ HeadInv /\ Fence(s)
    BY DEF Commit, CheckStage, Ready, FenceInv, HeadInv, ResetInv, Inv, TypeOK
  <1>2. x \in Session /\ x.committing = t /\ x.fenced /\ x.revision = sess[s].revision
    BY <1>1 DEF Session
  <1>3. /\ sess' = [sess EXCEPT ![s] = x] /\ published' = published /\ stage' = stage
        /\ Register!Invoke(s, stage[t].base, stage[t].candidate)
        /\ head' = head /\ write' = write
    BY DEF Commit, Register!Invoke
  <1> HIDE DEF x
  <1>4. x # NoSession
    BY <1>2, NoSessionAssumption
  <1>5. CASE c = s
    <2>1. sess'[s] = x
      BY <1>3, <1>1 DEF FenceInv, HeadInv, ResetInv, Inv, TypeOK
    <2>2. OwnIsBelow(s)'
      BY <1>1, <1>3, <1>4, <2>1 DEF Fence, OwnIsBelow
    <2>3. OpenFence(s)'
      BY <1>2, <2>1 DEF OpenFence
    <2>4. ~stage[t].reset => KnowsOwn(s) /\ Quiet(s)
      BY <1>1 DEF Healthy, Fence, OpenFence
    <2>5. call'[s].phase = "called"
      BY <1>3, <1>1 DEF Register!Invoke, FenceInv, HeadInv, ResetInv, Inv, TypeOK
    <2>6. SaveKnows(s)'
      BY <1>2, <1>3, <2>1, <2>4, <2>5 DEF SaveKnows, KnowsOwn, Quiet
    <2>7. QED BY <1>5, <2>2, <2>3, <2>6 DEF Fence
  <1>6. CASE c # s
    BY <1>3, <1>6, OthersElsewhere DEF ResetsStay
  <1>7. QED BY <1>5, <1>6

(***************************************************************************)
(* Adopting takes the revision of the head, which is at least what was     *)
(* selected for the session.                                               *)
(***************************************************************************)
LEMMA AdoptedKnows ==
  ASSUME HeadInv, NEW s \in Sessions, NEW t \in Stages, sess[s] # NoSession,
         stage[t] # NoStage, Adopt(s, t)
  PROVE  /\ ResetsStay
         /\ AdoptedSession(s, t).revision = stage[t].candidate.revision
         /\ AdoptedSession(s, t).committing = NoStage
  <1> DEFINE spent == [stage EXCEPT ![t].consumed = TRUE]
             c == stage[t].candidate
  <1>1. /\ sess[s] \in Session /\ stage \in [Stages -> Stage \cup {NoStage}]
        /\ stage' = IF stage[t].reset THEN Disown(spent, s) ELSE spent
    BY DEF Adopt, HeadInv, ResetInv, Inv, TypeOK
  <1>2. /\ spent \in [Stages -> Stage \cup {NoStage}]
        /\ \A u \in Stages : /\ spent[u] # NoStage <=> stage[u] # NoStage
                             /\ spent[u].reset = stage[u].reset
    BY <1>1, SpentStage
  <1> HIDE DEF spent, c
  <1>3. ResetsStay
    BY <1>1, <1>2, DisownKeeps DEF ResetsStay
  <1>4. AdoptedSession(s, t).revision = c.revision /\ AdoptedSession(s, t).committing = NoStage
    <2>1. Settled(s, t) \in [head : {c}, revision : {c.revision}, generation : Generations,
                             key : Keys, events : SUBSET Feedback, undone : SUBSET Feedback,
                             receipts : SUBSET Feedback, checkpoint : Counter,
                             intact : BOOLEAN, fenced : BOOLEAN, committing : {NoStage}]
      BY <1>1 DEF Settled, Session, c
    <2>2. QED BY <2>1 DEF AdoptedSession
  <1>5. QED BY <1>3, <1>4 DEF c

LEMMA AdoptFence ==
  ASSUME FenceInv, NEW s \in Sessions, NEW t \in Stages, sess[s] # NoSession,
         stage[t] # NoStage, stage[t].owner = s, Adopt(s, t), head = stage[t].candidate,
         write' = NoWrite, published' = published, head' = head,
         UNCHANGED regVars \/ \E o : Register!Answer(s, o),
         NEW c \in Sessions
  PROVE  Fence(c)'
  <1> DEFINE x == AdoptedSession(s, t)
  <1>1. HeadInv /\ Fence(s) /\ head \in Record
    BY DEF FenceInv, HeadInv, ResetInv, Inv, TypeOK, Stage
  <1>2. /\ sess' = [sess EXCEPT ![s] = x] /\ x # NoSession /\ ResetsStay
        /\ x.revision = head.revision /\ x.committing = NoStage
    BY <1>1, AdoptedHead, AdoptedKnows
  <1> HIDE DEF x
  <1>3. CASE c = s
    <2>1. head # NoRecord /\ head.revision \in Nat /\ published[s] \in Nat
      BY <1>1, Numbers, NoRecordAssumption
    <2>2. published[s] <= x.revision
      BY <1>1, <1>2, <2>1 DEF Fence, OwnIsBelow
    <2>3. Quiet(s)'
      BY DEF Quiet
    <2>4. UNCHANGED regVars \/ CallLeaves(s)
      BY <1>1, AnswerLeaves
    <2>5. QED BY <1>2, <1>3, <2>2, <2>3, <2>4, RestsKeeps
  <1>4. CASE c # s
    BY <1>2, <1>4, OthersElsewhere
  <1>5. QED BY <1>3, <1>4

(***************************************************************************)
(* commit returns.  A save that was not committed left nothing behind: it  *)
(* began with nothing under way.  A reset may have been handed over behind *)
(* a closed fence, after a doubtful answer about an earlier publication,   *)
(* so the definitive answer about it does not settle that one.             *)
(***************************************************************************)
ClearNotCommitted(s) ==
    /\ sess[s] # NoSession
    /\ sess[s].committing # NoStage
    /\ stage[sess[s].committing].reset
    /\ CommitNotCommitted(s, sess[s].committing)

LEMMA CommitReturnFence ==
  ASSUME FenceInv, NEW s \in Sessions, CommitReturn(s), ~ClearNotCommitted(s),
         NEW c \in Sessions
  PROVE  Fence(c)'
  <1> DEFINE t == sess[s].committing
  <1>1. /\ sess[s] # NoSession /\ t # NoStage /\ sess[s] \in Session
        /\ HeadInv /\ Fence(s) /\ published' = published
    BY DEF CommitReturn, FenceInv, HeadInv, ResetInv, Inv, TypeOK
  <1>2. t \in Stages /\ stage[t] # NoStage /\ stage[t].owner = s
    BY <1>1 DEF HeadInv, ResetInv, Inv, Links, Session, SessionLinks
  <1>3. CASE CommitApplied(s, t)
    <2>1. Register!Answer(s, "Applied") /\ Adopt(s, t)
      BY <1>3 DEF CommitApplied
    <2>2. write' = NoWrite /\ head = stage[t].candidate /\ head' = head
      BY <1>1, <2>1, AnswerLeaves DEF CallLeaves
    <2>3. QED BY <1>1, <1>2, <2>1, <2>2, AdoptFence
  <1>4. ASSUME NEW b \in BOOLEAN, NEW o, Register!Answer(s, o), stage' = stage,
               sess' = [sess EXCEPT ![s].fenced = b, ![s].committing = NoStage],
               b \/ (KnowsOwn(s) /\ Quiet(s)')
        PROVE  Fence(c)'
    <2> DEFINE x == [sess[s] EXCEPT !.fenced = b, !.committing = NoStage]
    <2>1. /\ x \in Session /\ x.committing = NoStage /\ x.revision = sess[s].revision
          /\ x.fenced = b
      BY <1>1 DEF Session
    <2>2. sess' = [sess EXCEPT ![s] = x]
      BY <1>4
    <2> HIDE DEF x
    <2>3. x # NoSession
      BY <2>1, NoSessionAssumption
    <2>4. CallLeaves(s) /\ head' = head
      BY <1>1, <1>4, AnswerLeaves DEF CallLeaves
    <2>5. CASE c = s
      <3>1. x.fenced \/ (published[s] <= x.revision /\ Quiet(s)')
        BY <1>4, <2>1 DEF KnowsOwn
      <3>2. QED BY <1>1, <2>1, <2>2, <2>3, <2>4, <2>5, <3>1, RestsKeeps
    <2>6. CASE c # s
      BY <1>1, <1>4, <2>2, <2>4, <2>6, OthersElsewhere DEF ResetsStay
    <2>7. QED BY <2>5, <2>6
  <1>5. CASE CommitNotCommitted(s, t)
    <2>1. ~stage[t].reset
      BY <1>1, <1>5 DEF ClearNotCommitted
    <2>2. PICK b \in BOOLEAN :
            sess' = [sess EXCEPT ![s].fenced = b, ![s].committing = NoStage]
      BY <1>5 DEF CommitNotCommitted, RecoveryRequired
    <2>3. Register!Answer(s, "NotCommitted") /\ stage' = stage
      BY <1>5 DEF CommitNotCommitted
    <2>4. KnowsOwn(s) /\ Quiet(s)'
      <3>1. CASE Register!AnswerOutside(s, "NotCommitted")
        <4>1. KnowsOwn(s) /\ Quiet(s) /\ write' = write
          BY <1>1, <2>1, <3>1 DEF Fence, SaveKnows, Register!AnswerOutside
        <4>2. QED BY <4>1 DEF Quiet
      <3>2. CASE Register!AnswerInside(s, "NotCommitted")
        <4>1. call[s].phase = "inside" /\ ~write.selected /\ write' = NoWrite
          BY <3>2 DEF Register!AnswerInside
        <4>2. QED BY <1>1, <2>1, <4>1 DEF Fence, SaveKnows, Quiet
      <3>3. QED BY <2>3, <3>1, <3>2 DEF Register!Answer
    <2>5. QED BY <1>4, <2>2, <2>3, <2>4
  <1>6. CASE CommitDoubtful(s, t)
    <2>1. sess' = [sess EXCEPT ![s].fenced = TRUE, ![s].committing = NoStage]
      BY <1>6 DEF CommitDoubtful, RecoveryRequired
    <2>2. PICK o : Register!Answer(s, o)
      BY <1>6 DEF CommitDoubtful
    <2>3. stage' = stage
      BY <1>6 DEF CommitDoubtful
    <2>4. QED BY <1>4, <2>1, <2>2, <2>3
  <1>7. QED BY <1>3, <1>5, <1>6 DEF CommitReturn

(***************************************************************************)
(* reconcile opens the fence of a session only when the head it read is    *)
(* the record it adopts or the one it already had.                         *)
(***************************************************************************)
LEMMA ReconcileFence ==
  ASSUME FenceInv, NEW s \in Sessions, NEW t \in Stages, Reconcile(s, t), NEW c \in Sessions
  PROVE  Fence(c)'
  <1>1. /\ Ready(s) /\ sess[s] # NoSession /\ sess[s] \in Session
        /\ stage[t] # NoStage /\ stage[t].owner = s
        /\ write = NoWrite /\ UNCHANGED regVars /\ published' = published
        /\ HeadInv /\ Fence(s)
    BY DEF Reconcile, Ready, CheckStage, Register!CanLoad, FenceInv, HeadInv, ResetInv, Inv,
       TypeOK
  <1>2. write' = NoWrite /\ head' = head
    BY <1>1 DEF regVars
  <1>3. CASE ReconcileApplied(s, t)
    <2>1. Adopt(s, t) /\ head = stage[t].candidate
      BY <1>3 DEF ReconcileApplied, Selected
    <2>2. QED BY <1>1, <1>2, <2>1, AdoptFence
  <1>4. ASSUME NEW b \in BOOLEAN, sess' = [sess EXCEPT ![s].fenced = b], stage' = stage,
               b \/ (stage[t].base = sess[s].head /\ head = stage[t].base)
        PROVE  Fence(c)'
    <2> DEFINE x == [sess[s] EXCEPT !.fenced = b]
    <2>1. /\ x \in Session /\ x.committing = NoStage /\ x.revision = sess[s].revision
          /\ x.fenced = b
      BY <1>1 DEF Session, Ready
    <2>2. sess' = [sess EXCEPT ![s] = x]
      BY <1>4
    <2> HIDE DEF x
    <2>3. x # NoSession
      BY <2>1, NoSessionAssumption
    <2>4. CASE c = s
      <3>1. ~b => published[s] <= x.revision
        <4>1. SUFFICES ASSUME ~b PROVE published[s] <= x.revision
          OBVIOUS
        <4>2. head = sess[s].head
          BY <1>4, <4>1
        <4>3. x.revision = IF head = NoRecord THEN 0 ELSE head.revision
          BY <1>1, <2>1, <4>2
          DEF HeadInv, ResetInv, Inv, Links, SessionLinks, SessionCoversHead
        <4>4. QED BY <1>1, <4>3, Numbers DEF Fence, OwnIsBelow
      <3>2. Quiet(s)'
        BY <1>2 DEF Quiet
      <3>3. x.fenced \/ (published[s] <= x.revision /\ Quiet(s)')
        BY <2>1, <3>1, <3>2
      <3>4. QED BY <1>1, <1>2, <2>1, <2>2, <2>3, <2>4, <3>3, RestsKeeps
    <2>5. CASE c # s
      BY <1>1, <1>2, <1>4, <2>2, <2>5, OthersElsewhere DEF ResetsStay
    <2>6. QED BY <2>4, <2>5
  <1>5. CASE ReconcileUnchanged(s, t)
    <2> DEFINE b == stage[t].base # sess[s].head
    <2>1. sess' = [sess EXCEPT ![s].fenced = b] /\ stage' = stage /\ head = stage[t].base
      BY <1>5 DEF ReconcileUnchanged, RecoveryRequired
    <2>2. b \in BOOLEAN /\ (b \/ stage[t].base = sess[s].head)
      OBVIOUS
    <2> HIDE DEF b
    <2>3. QED BY <1>4, <2>1, <2>2
  <1>6. CASE ReconcileConflict(s, t)
    <2>1. PICK b \in BOOLEAN : b /\ sess' = [sess EXCEPT ![s].fenced = b] /\ stage' = stage
      BY <1>6 DEF ReconcileConflict, RecoveryRequired
    <2>2. b \/ (stage[t].base = sess[s].head /\ head = stage[t].base)
      BY <2>1
    <2>3. QED BY <1>4, <2>1, <2>2
  <1>7. QED BY <1>3, <1>5, <1>6 DEF Reconcile

(***************************************************************************)
(* The register's steps: only a selection moves what a session published,  *)
(* and a session waiting inside or late in the boundary is fenced.         *)
(***************************************************************************)
LEMMA SelectFence ==
  ASSUME FenceInv, SelectRecord, NEW c \in Sessions
  PROVE  Fence(c)'
  <1>1. /\ HeadInv /\ Fence(c) /\ UNCHANGED <<sess, stage>>
        /\ write \in Write /\ write # NoWrite /\ head = write.expected /\ ~write.selected
        /\ head' = write.candidate /\ call' = call
        /\ write' = [write EXCEPT !.selected = TRUE]
        /\ published' = IF write.by = NoOwner THEN published
                        ELSE [published EXCEPT ![write.by] = write.candidate.revision]
    BY DEF SelectRecord, Register!Select, Register!Compares, FenceInv, HeadInv, ResetInv, Inv,
       TypeOK
  <1>2. /\ write'.by = write.by /\ write'.candidate = write.candidate /\ write'.selected
        /\ write.by \in Sessions \cup {NoOwner} /\ write.candidate \in Record
    BY <1>1 DEF Write
  <1>3. /\ write.by = c => published'[c] = write.candidate.revision
        /\ write.by # c => published'[c] = published[c]
    <2>1. published \in [Sessions -> Counter] /\ c \in Sessions
      BY <1>1 DEF HeadInv, ResetInv, Inv, TypeOK
    <2>2. CASE write.by = NoOwner
      BY <1>1, <2>2, NoOwnerAssumption
    <2>3. CASE write.by \in Sessions
      <3>1. published' = [published EXCEPT ![write.by] = write.candidate.revision]
        BY <1>1, <2>3, NoOwnerAssumption
      <3>2. QED BY <2>1, <2>3, <3>1
    <2>4. QED BY <1>2, <2>2, <2>3
  <1>4. /\ head' # NoRecord /\ head'.revision \in Nat
        /\ head # NoRecord => head'.revision >= head.revision
    <2>1. head' # NoRecord /\ head'.revision \in Nat
      BY <1>1, <1>2, Numbers, NoRecordAssumption
    <2>2. head # NoRecord => head'.revision = head.revision + 1
      BY <1>1
      DEF HeadInv, ResetInv, Inv, Links, PublicationLinks, Ledger!Follows, Ledger!Extends,
          Ledger!Clears
    <2>3. QED BY <1>1, <2>1, <2>2, Numbers
  <1>5. OwnIsBelow(c)'
    <2>1. CASE write.by = c
      <3>1. sess[c] # NoSession
        BY <1>1, <2>1 DEF HeadInv, Known, WriteKnown
      <3>2. QED BY <1>1, <1>2, <1>3, <1>4, <2>1, <3>1 DEF OwnIsBelow
    <2>2. CASE write.by # c
      <3>1. published[c] \in Nat
        BY <1>1, Numbers
      <3>2. QED BY <1>1, <1>2, <1>3, <1>4, <2>2, <3>1, Numbers DEF Fence, OwnIsBelow
    <2>3. QED BY <2>1, <2>2
  <1>6. OpenFence(c)'
    BY <1>1, <1>2, <1>3 DEF Fence, OpenFence, KnowsOwn, Quiet
  <1>7. SaveKnows(c)'
    BY <1>1, <1>2, <1>3 DEF Fence, SaveKnows, KnowsOwn, Quiet
  <1>8. QED BY <1>5, <1>6, <1>7 DEF Fence

LEMMA ProviderFence ==
  ASSUME FenceInv, Provider, ~RootMayVanish, NEW c \in Sessions
  PROVE  Fence(c)'
  <1>1. HeadInv /\ Fence(c) /\ UNCHANGED <<sess, stage, published>>
    BY DEF Provider, FenceInv
  <1>2. ASSUME NEW s \in Sessions, Register!Enter(s)
        PROVE  Fence(c)'
    <2>1. /\ call[s].phase = "called" /\ write = NoWrite /\ head' = head
          /\ call' = [call EXCEPT ![s].phase = "inside"]
          /\ write' = [by |-> s, expected |-> call[s].expected,
                       candidate |-> call[s].candidate, selected |-> FALSE]
      BY <1>2 DEF Register!Enter
    <2>2. write'.by = s /\ ~write'.selected
      BY <2>1
    <2>3. sess[s] # NoSession /\ sess[s].committing # NoStage
      BY <1>1, <2>1 DEF HeadInv, Known, CallsKnown
    <2>4. OwnIsBelow(c)'
      BY <1>1, <2>1, <2>2 DEF Fence, OwnIsBelow
    <2>5. OpenFence(c)'
      BY <1>1, <2>2, <2>3 DEF Fence, OpenFence, KnowsOwn, Quiet
    <2>6. SaveKnows(c)'
      <3>1. CASE c = s
        <4>1. call'[c].phase = "inside"
          BY <1>1, <2>1, <3>1 DEF HeadInv, ResetInv, Inv, TypeOK, Call
        <4>2. QED BY <1>1, <2>1, <3>1, <4>1 DEF Fence, SaveKnows, KnowsOwn
      <3>2. CASE c # s
        <4>1. call'[c] = call[c] /\ call[c].phase # "inside"
          BY <1>1, <2>1, <3>2 DEF HeadInv, ResetInv, Inv, Links, PublicationLinks, TypeOK
        <4>2. QED BY <1>1, <2>1, <2>2, <3>2, <4>1 DEF Fence, SaveKnows, KnowsOwn, Quiet
      <3>3. QED BY <3>1, <3>2
    <2>7. QED BY <2>4, <2>5, <2>6 DEF Fence
  <1>3. CASE Register!Settle
    <2>1. Register!Late /\ write' = NoWrite /\ head' = head /\ call' = call
      BY <1>3 DEF Register!Settle
    <2>2. call[c].phase # "inside"
      BY <1>1, <2>1, NoOwnerAssumption
      DEF Register!Late, HeadInv, ResetInv, Inv, Links, PublicationLinks
    <2>3. head' # NoRecord => head'.revision \in Nat /\ head'.revision >= head.revision
      BY <1>1, <2>1, Numbers
    <2>4. Elsewhere(c)
      BY <1>1, <2>1, <2>2, <2>3 DEF Elsewhere
    <2>5. QED BY <2>3, <2>4, ElsewhereKeeps
  <1>4. CASE Register!Vanish
    BY <1>4 DEF Register!Vanish
  <1>5. QED BY <1>2, <1>3, <1>4 DEF Provider

LEMMA NextFence ==
  ASSUME ~RootMayVanish
  PROVE  FenceInv /\ [Next /\ \A s \in Sessions : ~ClearNotCommitted(s)]_vars => FenceInv'
  <1> SUFFICES ASSUME FenceInv, [Next /\ \A s \in Sessions : ~ClearNotCommitted(s)]_vars,
                      NEW c \in Sessions
               PROVE  Fence(c)'
    BY NextKnown DEF FenceInv
  <1>1. ASSUME UNCHANGED <<head, write, call, sess, stage, published>>
        PROVE  Fence(c)'
    BY <1>1 DEF FenceInv, Fence, OwnIsBelow, OpenFence, SaveKnows, KnowsOwn, Quiet
  <1>2. CASE UNCHANGED vars
    BY <1>1, <1>2 DEF vars
  <1>3. ASSUME NEW s \in Sessions, Host(s), ~ClearNotCommitted(s)
        PROVE  Fence(c)'
    BY <1>3, OpensFence, CloseFence, CoreStepsFence, CommitFence, CommitReturnFence,
       ReconcileFence DEF Host
  <1>4. ASSUME NEW x \in ConsentLevels, SetConsent(x)
        PROVE  Fence(c)'
    BY <1>1, <1>4 DEF SetConsent, regVars
  <1>5. QED BY <1>2, <1>3, <1>4, SelectFence, ProviderFence DEF Next

LEMMA InitFence == Init => FenceInv
  <1> SUFFICES ASSUME Init PROVE \A s \in Sessions : Fence(s)
    BY InitKnown DEF FenceInv
  <1>1. \A s \in Sessions : sess[s] = NoSession /\ published[s] = 0
    BY DEF Init
  <1>2. write = NoWrite
    BY DEF Init, Register!RegInit
  <1>3. ASSUME NEW s \in Sessions
        PROVE  OwnIsBelow(s) /\ OpenFence(s) /\ SaveKnows(s)
    <2>1. sess[s] = NoSession /\ published[s] = 0
      BY <1>1
    <2>2. OwnIsBelow(s)
      BY <1>2, <2>1 DEF OwnIsBelow
    <2>3. OpenFence(s) /\ SaveKnows(s)
      BY <2>1 DEF OpenFence, SaveKnows
    <2>4. QED BY <2>2, <2>3
  <1>4. QED BY <1>3 DEF Fence

(***************************************************************************)
(* A session that may save normally knows of every record selected on its  *)
(* behalf, whatever answers were doubtful and whichever of its writes came *)
(* late: commit sets the fence before it crosses into the provider, and    *)
(* only an answer that excludes a selection lifts it.  Two things are      *)
(* assumed of the behaviour: the protected root is not lost, and no reset  *)
(* is answered with NotCommitted.  The second cannot be dropped, as run    *)
(* transactions_fence shows: the definitive answer about a reset lifts the *)
(* fence that an earlier, doubtful publication of the session still needs. *)
(***************************************************************************)
THEOREM FenceHolds ==
  ASSUME ~RootMayVanish
  PROVE  Spec /\ [][\A s \in Sessions : ~ClearNotCommitted(s)]_vars
            => []FenceCoversOwnPublication
  <1>1. FenceInv => FenceCoversOwnPublication
    BY DEF FenceInv, Fence, OpenFence, KnowsOwn, FenceCoversOwnPublication
  <1>2. Init => FenceInv
    BY InitFence
  <1>3. FenceInv /\ [Next]_vars /\ [\A s \in Sessions : ~ClearNotCommitted(s)]_vars => FenceInv'
    BY NextFence
  <1>4. QED BY <1>1, <1>2, <1>3, PTL DEF Spec

(***************************************************************************)
(* In particular the fence of a host that only saves holds: with a single  *)
(* generation prepare_clear finds none to move to, and no reset is staged. *)
(***************************************************************************)
THEOREM FenceHoldsForSaves ==
  ASSUME ~RootMayVanish, \A g, h \in Generations : g = h
  PROVE  Spec => []FenceCoversOwnPublication
  <1>1. FenceInv => FenceCoversOwnPublication
    BY DEF FenceInv, Fence, OpenFence, KnowsOwn, FenceCoversOwnPublication
  <1>2. ASSUME HeadInv, NEW s \in Sessions, ClearNotCommitted(s)
        PROVE  FALSE
    <2> DEFINE t == sess[s].committing
    <2>1. /\ sess[s] # NoSession /\ sess[s] \in Session /\ t # NoStage /\ stage[t].reset
      BY <1>2 DEF ClearNotCommitted, HeadInv, ResetInv, Inv, TypeOK
    <2>2. t \in Stages /\ stage[t] # NoStage /\ stage[t].owner = s
      BY <1>2, <2>1 DEF HeadInv, ResetInv, Inv, Links, Session, SessionLinks
    <2>3. stage[t].candidate.generation > sess[s].generation
      BY <1>2, <2>1, <2>2, NoOwnerAssumption DEF HeadInv, ResetInv, ResetsAhead, ResetAhead
    <2>4. /\ stage[t].candidate.generation \in Generations /\ sess[s].generation \in Generations
          /\ stage[t].candidate.generation \in Nat
      <3>1. stage[t] \in Stage
        BY <1>2, <2>2 DEF HeadInv, ResetInv, Inv, TypeOK
      <3>2. stage[t].candidate.generation \in Generations
        BY <3>1 DEF Stage, Record
      <3>3. sess[s].generation \in Generations
        BY <2>1 DEF Session
      <3>4. Generations \subseteq Nat
        BY GenerationAssumption, CounterAssumption
      <3>5. QED BY <3>2, <3>3, <3>4
    <2>5. stage[t].candidate.generation = sess[s].generation
      BY <2>4
    <2>6. QED BY <2>3, <2>4, <2>5
  <1>3. FenceInv /\ [Next]_vars => FenceInv'
    <2>1. SUFFICES ASSUME FenceInv, [Next]_vars PROVE FenceInv'
      OBVIOUS
    <2>2. \A s \in Sessions : ~ClearNotCommitted(s)
      BY <1>2, <2>1 DEF FenceInv
    <2>3. [Next /\ \A s \in Sessions : ~ClearNotCommitted(s)]_vars
      BY <2>1, <2>2
    <2>4. QED BY <2>1, <2>3, NextFence
  <1>4. QED BY <1>1, <1>3, InitFence, PTL DEF Spec
=============================================================================
