-------------------------- MODULE MixedLoadProofs --------------------------
(***************************************************************************)
(* Theorems about the mixed load for any number of repeats and streams.    *)
(***************************************************************************)
EXTENDS MixedLoad, TLAPS

USE CountAssumption DEF loopVars, threadVars, rowVars, vars

-----------------------------------------------------------------------------
(* What the properties rest on *)

\* A repeat that is still to come has no threads; neither have the holders that the loop of
\* run_one has not reached.
Unstarted ==
  \A r \in Repeats, s \in Streams :
    \/ r > i
    \/ r = i /\ main = "size"
    \/ r = i /\ main = "start" /\ s >= k
    => thread[r][s] = "none"

\* A row is there for every repeat before this one and, at the end, for every one; that of
\* the warm-up is ok.
RowsSoFar ==
  /\ \A r \in Repeats : r < i \/ main = "report" \/ code = 0 => rows[r] # "none"
  /\ rows[0] # "failed"
  /\ main # "report" /\ main # "exited" => \A r \in Repeats : r >= i => rows[r] = "none"
  /\ code = 0 => ~Failed

\* A row that is ok has the tokens of all its streams.
OkMeansTokens ==
  \A r \in Repeats, s \in Streams : rows[r] = "ok" => outcome[r][s] = "tokens"

IInv == Unstarted /\ RowsSoFar /\ OkMeansTokens /\ NoLeftover

-----------------------------------------------------------------------------
(* Type correctness *)

LEMMA TypeInit == Init => TypeOK
<1> SUFFICES ASSUME Init PROVE TypeOK
  OBVIOUS
<1> USE DEF Init, Places, Repeats, Streams
<1>1. main \in Places /\ i \in Repeats /\ k \in Streams
  OBVIOUS
<1>2. /\ thread \in [Repeats -> [Streams -> {"none", "open", "ended", "done"}]]
      /\ outcome \in [Repeats -> [Streams -> {"none", "tokens", "useless"}]]
      /\ \A r \in Repeats, s \in Streams :
           (outcome[r][s] = "none") = (thread[r][s] \in {"none", "open"})
  OBVIOUS
<1>3. ttft \in [Repeats -> [Streams -> BOOLEAN]]
  OBVIOUS
<1>4. rows \in [Repeats -> {"ok", "failed", "none"}]
  OBVIOUS
<1>5. QED
  BY <1>1, <1>2, <1>3, <1>4 DEF TypeOK

LEMMA ReturnType ==
  ASSUME TypeOK, NEW row \in {"ok", "failed"}, main # "exited", Return(row),
         UNCHANGED threadVars
  PROVE  TypeOK'
<1> USE DEF TypeOK, Places, Repeats, Streams, Return
<1>1. CASE i = 0 /\ row # "ok"
  BY <1>1 DEF Raise
<1>2. CASE ~(i = 0 /\ row # "ok")
  <2>1. rows' \in [Repeats -> {"ok", "failed", "none"}]
    BY <1>2
  <2>2. main' \in Places /\ i' \in Repeats /\ k' \in Streams /\ main' # "exited"
    BY <1>2
  <2>3. answer' = "none" /\ alongside' = {} /\ UNCHANGED <<code, threadVars>>
    BY <1>2
  <2>4. QED
    BY <2>1, <2>2, <2>3
<1>3. QED
  BY <1>1, <1>2

\* A stream is started once.
LEMMA TypeStep == TypeOK /\ IInv /\ [Next]_vars => TypeOK'
<1> SUFFICES ASSUME TypeOK, IInv, [Next]_vars PROVE TypeOK'
  OBVIOUS
<1> USE DEF TypeOK, Places, Repeats, Streams
<1>1. CASE Size
  BY <1>1 DEF Size, Raise
<1>2. CASE Start
  <2>1. thread[i][k] = "none" /\ outcome[i][k] = "none"
    BY <1>2 DEF Start, IInv, Unstarted
  <2>2. QED
    BY <1>2, <2>1 DEF Start, NextHolder
<1>3. CASE First
  <2>1. CASE ttft[i][k] /\ NextHolder("check") /\ UNCHANGED rowVars
    BY <1>3, <2>1 DEF First, NextHolder
  <2>2. CASE Return("failed") /\ UNCHANGED threadVars
    BY <2>2, <1>3, ReturnType DEF First
  <2>3. QED
    BY <1>3, <2>1, <2>2 DEF First
<1>4. CASE Check
  BY <1>4 DEF Check, Raise
<1>5. CASE Send
  BY <1>5 DEF Send, Raise, Open
<1>6. CASE Answer
  BY <1>6 DEF Answer, Raise
<1>7. CASE Drain
  BY <1>7 DEF Drain, NextHolder
<1>8. CASE Judge
  BY <1>8, ReturnType DEF Judge
<1>9. CASE Report
  BY <1>9 DEF Report
<1>10. ASSUME NEW r \in Repeats, NEW s \in Streams, Delta(r, s) PROVE TypeOK'
  BY <1>10 DEF Delta
<1>11. ASSUME NEW r \in Repeats, NEW s \in Streams, End(r, s) PROVE TypeOK'
  BY <1>11 DEF End, Thread
<1>12. ASSUME NEW r \in Repeats, NEW s \in Streams, Wake(r, s) PROVE TypeOK'
  BY <1>12 DEF Wake
<1>13. ASSUME NEW r \in Repeats, NEW s \in Streams, Done(r, s) PROVE TypeOK'
  BY <1>13 DEF Done, Thread
<1>14. CASE UNCHANGED vars
  BY <1>14
<1>15. QED
  BY <1>1, <1>2, <1>3, <1>4, <1>5, <1>6, <1>7, <1>8, <1>9, <1>10, <1>11, <1>12, <1>13,
     <1>14 DEF Next, Main, Ended

-----------------------------------------------------------------------------
(* Their invariance *)

LEMMA InvInit == Init => IInv
  BY DEF Init, IInv, Unstarted, RowsSoFar, OkMeansTokens, NoLeftover, Failed, Repeats, Streams

\* A thread's step starts no stream, and an outcome that is there stays.
LEMMA ThreadStep ==
  ASSUME TypeOK, IInv, NEW r \in Repeats, NEW s \in Streams,
         Delta(r, s) \/ End(r, s) \/ Wake(r, s) \/ Done(r, s)
  PROVE  IInv'
<1> USE DEF TypeOK
<1>1. UNCHANGED <<main, i, k, answer, rows, code, alongside>>
  BY DEF Delta, End, Wake, Done, Thread
<1>2. \A q \in Repeats, t \in Streams : thread[q][t] = "none" => thread'[q][t] = "none"
  <2>1. ASSUME NEW from \in {"open", "ended"}, NEW to, Thread(r, s, from, to)
        PROVE  \A q \in Repeats, t \in Streams : thread[q][t] = "none" => thread'[q][t] = "none"
    BY <2>1 DEF Thread
  <2>2. CASE UNCHANGED thread
    BY <2>2
  <2>3. QED
    BY <2>1, <2>2 DEF Delta, End, Wake, Done
<1>3. \A q \in Repeats, t \in Streams :
        outcome[q][t] = "tokens" => outcome'[q][t] = "tokens"
  <2>1. CASE End(r, s)
    <3>1. PICK o \in {"tokens", "useless"} : outcome' = [outcome EXCEPT ![r][s] = o]
      BY <2>1 DEF End
    <3>2. outcome[r][s] = "none"
      BY <2>1 DEF End, Thread
    <3>3. QED
      BY <3>1, <3>2
  <2>2. CASE UNCHANGED outcome
    BY <2>2
  <2>3. QED
    BY <2>1, <2>2 DEF Delta, Wake, Done
<1>4. Unstarted'
  <2>1. \A q \in Repeats, t \in Streams :
          q > i \/ (q = i /\ main = "size") \/ (q = i /\ main = "start" /\ t >= k)
            => thread'[q][t] = "none"
    BY <1>2 DEF IInv, Unstarted
  <2>2. QED
    BY <1>1, <2>1 DEF Unstarted
<1>5. RowsSoFar' /\ NoLeftover'
  BY <1>1 DEF IInv, RowsSoFar, Failed, NoLeftover
<1>6. OkMeansTokens'
  BY <1>1, <1>3 DEF IInv, OkMeansTokens
<1>7. QED
  BY <1>4, <1>5, <1>6 DEF IInv

\* An exception ends the run with exit code 1.
LEMMA RaiseStep ==
  ASSUME TypeOK, IInv, Raise, UNCHANGED threadVars
  PROVE  IInv'
<1> USE DEF TypeOK, Raise
<1>1. Unstarted'
  BY DEF IInv, Unstarted, Repeats, Streams, Places
<1>2. RowsSoFar'
  BY DEF IInv, RowsSoFar, Failed, Repeats
<1>3. OkMeansTokens'
  BY DEF IInv, OkMeansTokens
<1>4. NoLeftover'
  BY DEF IInv, NoLeftover
<1>5. QED
  BY <1>1, <1>2, <1>3, <1>4 DEF IInv

\* run_one's return adds a row that says ok only when every stream's tokens are there.
LEMMA ReturnStep ==
  ASSUME TypeOK, IInv, NEW row \in {"ok", "failed"}, row = "ok" => DecodeOk,
         main \in {"first", "judge"}, Return(row), UNCHANGED threadVars
  PROVE  IInv'
<1>1. CASE i = 0 /\ row # "ok"
  BY <1>1, RaiseStep DEF Return
<1>2. CASE ~(i = 0 /\ row # "ok")
  <2> USE DEF TypeOK
  <2>1. /\ rows' = [rows EXCEPT ![i] = row] /\ alongside' = {} /\ UNCHANGED code
        /\ IF i < N THEN main' = "size" /\ i' = i + 1 ELSE main' = "report" /\ i' = i
    BY <1>2 DEF Return
  <2>2. Unstarted'
    BY <2>1 DEF IInv, Unstarted, Repeats, Streams
  <2>3. RowsSoFar'
    <3>1. code' = -1
      BY <2>1
    <3>2. \A r \in Repeats : r < i' \/ main' = "report" => rows'[r] # "none"
      BY <2>1 DEF IInv, RowsSoFar, Repeats
    <3>3. rows'[0] # "failed"
      BY <1>2, <2>1 DEF IInv, RowsSoFar, Repeats
    <3>4. main' # "report" => \A r \in Repeats : r >= i' => rows'[r] = "none"
      BY <2>1 DEF IInv, RowsSoFar, Repeats
    <3>5. QED
      BY <3>1, <3>2, <3>3, <3>4 DEF RowsSoFar
  <2>4. OkMeansTokens'
    BY <2>1 DEF IInv, OkMeansTokens, DecodeOk
  <2>5. NoLeftover'
    BY <2>1 DEF NoLeftover
  <2>6. QED
    BY <2>2, <2>3, <2>4, <2>5 DEF IInv
<1>3. QED
  BY <1>1, <1>2

\* When every repeat before this one was ok, its streams are the only ones that can be open.
LEMMA OpenAreOwn ==
  ASSUME TypeOK, IInv, \A q \in 0..(i - 1) : rows[q] = "ok"
  PROVE  Open \subseteq {i} \X Streams
<1>1. SUFFICES ASSUME NEW x \in Open PROVE x \in {i} \X Streams
  OBVIOUS
<1>2. x \in Repeats \X Streams /\ thread[x[1]][x[2]] = "open"
  BY DEF Open
<1>3. ~(x[1] > i)
  BY <1>2 DEF IInv, Unstarted
<1>4. ~(x[1] < i)
  <2>1. SUFFICES ASSUME x[1] < i PROVE FALSE
    OBVIOUS
  <2>2. rows[x[1]] = "ok"
    BY <1>2, <2>1 DEF Repeats, TypeOK
  <2>3. outcome[x[1]][x[2]] = "tokens"
    BY <1>2, <2>2 DEF IInv, OkMeansTokens
  <2>4. QED
    BY <1>2, <2>3 DEF TypeOK
<1>5. QED
  BY <1>2, <1>3, <1>4 DEF Repeats, TypeOK

LEMMA InvStep == TypeOK /\ IInv /\ [Next]_vars => IInv'
<1> SUFFICES ASSUME TypeOK, IInv, [Next]_vars PROVE IInv'
  OBVIOUS
<1>1. ASSUME NextHolder("first") \/ NextHolder("check") \/ NextHolder("judge"),
             UNCHANGED threadVars, UNCHANGED rowVars, main # "start", main # "exited",
             main # "report"
      PROVE  IInv'
  <2> USE <1>1 DEF NextHolder, TypeOK
  <2>1. Unstarted'
    BY DEF IInv, Unstarted, Repeats, Streams
  <2>2. RowsSoFar'
    BY DEF IInv, RowsSoFar, Failed
  <2>3. OkMeansTokens' /\ NoLeftover'
    BY DEF IInv, OkMeansTokens, NoLeftover
  <2>4. QED
    BY <2>1, <2>2, <2>3 DEF IInv
<1>2. ASSUME main' \in {"start", "send", "drain"}, main \in {"size", "check", "answer"},
             UNCHANGED <<i, k, rows, code, alongside>>, main' = "start" => main = "size",
             UNCHANGED threadVars
      PROVE  IInv'
  <2> USE <1>2 DEF TypeOK
  <2>1. Unstarted'
    BY DEF IInv, Unstarted, Repeats, Streams
  <2>2. RowsSoFar'
    BY DEF IInv, RowsSoFar, Failed
  <2>3. OkMeansTokens' /\ NoLeftover'
    BY DEF IInv, OkMeansTokens, NoLeftover
  <2>4. QED
    BY <2>1, <2>2, <2>3 DEF IInv
<1>3. CASE Size
  BY <1>3, <1>2, RaiseStep DEF Size
<1>4. CASE Start
  <2> USE <1>4 DEF Start, NextHolder, TypeOK
  <2>1. Unstarted'
    BY DEF IInv, Unstarted, Repeats, Streams
  <2>2. RowsSoFar'
    BY DEF IInv, RowsSoFar, Failed
  <2>3. OkMeansTokens' /\ NoLeftover'
    BY DEF IInv, OkMeansTokens, NoLeftover
  <2>4. QED
    BY <2>1, <2>2, <2>3 DEF IInv
<1>5. CASE First
  BY <1>5, <1>1, ReturnStep DEF First
<1>6. CASE Check
  BY <1>6, <1>2, RaiseStep DEF Check
<1>7. CASE Send
  <2>1. CASE Raise
    BY <1>7, <2>1, RaiseStep DEF Send
  <2>2. CASE main' = "answer" /\ alongside' = Open /\ UNCHANGED <<i, k, answer, rows, code>>
    <3> USE <1>7, <2>2 DEF Send
    <3>1. Unstarted'
      BY DEF IInv, Unstarted, Repeats, Streams
    <3>2. RowsSoFar' /\ OkMeansTokens'
      BY DEF IInv, RowsSoFar, OkMeansTokens, Failed
    <3>3. NoLeftover'
      BY OpenAreOwn DEF NoLeftover
    <3>4. QED
      BY <3>1, <3>2, <3>3 DEF IInv
  <2>3. QED
    BY <1>7, <2>1, <2>2 DEF Send
<1>8. CASE Answer
  BY <1>8, <1>2, RaiseStep DEF Answer
<1>9. CASE Drain
  BY <1>9, <1>1 DEF Drain
<1>10. CASE Judge
  BY <1>10, ReturnStep DEF Judge
<1>11. CASE Report
  <2> USE <1>11 DEF Report, TypeOK
  <2>1. Unstarted'
    BY DEF IInv, Unstarted, Repeats, Streams
  <2>2. RowsSoFar'
    BY DEF IInv, RowsSoFar, Failed
  <2>3. OkMeansTokens' /\ NoLeftover'
    BY DEF IInv, OkMeansTokens, NoLeftover
  <2>4. QED
    BY <2>1, <2>2, <2>3 DEF IInv
<1>12. ASSUME NEW r \in Repeats, NEW s \in Streams,
              Delta(r, s) \/ End(r, s) \/ Wake(r, s) \/ Done(r, s)
       PROVE  IInv'
  BY <1>12, ThreadStep
<1>13. CASE UNCHANGED vars
  BY <1>13 DEF IInv, Unstarted, RowsSoFar, OkMeansTokens, NoLeftover, Failed
<1>14. QED
  BY <1>3, <1>4, <1>5, <1>6, <1>7, <1>8, <1>9, <1>10, <1>11, <1>12, <1>13
     DEF Next, Main, Ended

LEMMA Invariance == Spec => [](TypeOK /\ IInv)
<1>1. TypeOK /\ IInv /\ [Next]_vars => (TypeOK /\ IInv)'
  BY TypeStep, InvStep
<1>2. QED
  BY TypeInit, InvInit, <1>1, PTL DEF Spec

-----------------------------------------------------------------------------
(* The properties *)

\* The state keeps its type, and a holder has an outcome exactly when its stream has ended.
THEOREM TypeCorrect == Spec => []TypeOK
  BY Invariance, PTL

\* A prefill meets a stream of an earlier repeat only after a failed repeat.
THEOREM NothingIsLeft == Spec => []NoLeftover
<1>1. IInv => NoLeftover
  BY DEF IInv
<1>2. QED
  BY Invariance, <1>1, PTL

\* Exit code 0 means that every repeat got the tokens of all its streams.
THEOREM PassIsMeasured == Spec => []PassMeasured
<1>1. TypeOK /\ IInv => PassMeasured
  <2>1. SUFFICES ASSUME TypeOK, IInv, code = 0, NEW r \in Repeats
                 PROVE  rows[r] = "ok" /\ \A s \in Streams : outcome[r][s] = "tokens"
    BY DEF PassMeasured
  <2>2. rows[r] = "ok"
    BY <2>1 DEF IInv, RowsSoFar, Failed, TypeOK, Repeats
  <2>3. QED
    BY <2>1, <2>2 DEF IInv, OkMeansTokens
<1>2. QED
  BY Invariance, <1>1, PTL
=============================================================================
