------------------------- MODULE BulkServerProofs --------------------------
(***************************************************************************)
(* Proofs about BulkServer, for any connections, scripts and bulk size.    *)
(***************************************************************************)
EXTENDS BulkServer, OutputWorkersProofs, BracesProofs

-----------------------------------------------------------------------------
(***************************************************************************)
(*                       The output threads, used                          *)
(***************************************************************************)

(* What a handler of a connection does to the output threads.              *)
LEMMA HandlerUsesWorkers ==
    ASSUME NEW c \in Connections, Handler(c)
    PROVE  [WorkersNext]_workerVars
<1> "io" \in Submitters
  BY IoAssumption
<1>1. ASSUME NEW kind, NEW commands, NEW rest, HandOver(kind, commands, rest)
      PROVE  [WorkersNext]_workerVars
  BY <1>1 DEF HandOver, WorkersNext
<1>2. CASE Accept(c)
  BY <1>2 DEF Accept, WorkersNext
<1>3. ASSUME NEW text, NEW rest, process_command(c, text, rest)
      PROVE  [WorkersNext]_workerVars
  BY <1>1, <1>3 DEF process_command, OpenBrace, CloseBrace, Command
<1>4. CASE HandleLine(c)
  BY <1>3, <1>4 DEF HandleLine
<1>5. CASE HandleEof(c)
  BY <1>3, <1>5 DEF HandleEof
<1>6. CASE HandleError(c)
  BY <1>6 DEF HandleError
<1> QED BY <1>2, <1>4, <1>5, <1>6 DEF Handler

(* Every step of the server is one of the threads, or none.                *)
LEMMA ServerStepUsesWorkers == [Next]_vars => [WorkersNext]_workerVars
<1> SUFFICES ASSUME [Next]_vars PROVE [WorkersNext]_workerVars
  OBVIOUS
<1> "io" \in Submitters
  BY IoAssumption
<1>1. ASSUME NEW c \in Connections, Client(c) PROVE UNCHANGED workerVars
  BY <1>1 DEF Client, ClientConnect, ClientCloses, ConnectionBreaks
<1>2. CASE Step
  <2>1. ASSUME NEW c \in Connections, Disconnect(c) PROVE [WorkersNext]_workerVars
    BY <2>1 DEF Disconnect, HandOver, WorkersNext
  <2>2. ASSUME NEW c \in Connections, RemoveSession(c) PROVE UNCHANGED workerVars
    BY <2>2 DEF RemoveSession
  <2>3. CASE Notify \/ Terminate \/ Wake \/ Reset
    BY <2>3 DEF Notify, Terminate, Wake, Reset, WorkersNext
  <2>4. ASSUME NEW w \in Workers, Start(w) \/ JoinNext(w) PROVE WorkersNext
    BY <2>4 DEF Start, JoinNext, WorkersNext
  <2> QED BY <1>2, <2>1, <2>2, <2>3, <2>4 DEF Step
<1>3. CASE Stop
  BY <1>3 DEF Stop
<1>4. ASSUME NEW w \in Workers, Worker(w) \/ Wakeup(w) PROVE WorkersNext
  BY <1>4 DEF Worker, Wakeup, WorkersNext
<1>5. CASE UNCHANGED vars
  BY <1>5 DEF vars, workerVars
<1> QED BY <1>1, <1>2, <1>3, <1>4, <1>5, HandlerUsesWorkers DEF Next

(***************************************************************************)
(* The server uses the output threads in no other way than OutputWorkers   *)
(* allows: what is proved of them holds of it.                             *)
(***************************************************************************)
THEOREM ServerUsesWorkers == Spec => WorkersSpec
<1>1. Init => WorkersInit
  BY DEF Init
<1> QED BY <1>1, ServerStepUsesWorkers, PTL DEF Spec, WorkersSpec

(***************************************************************************)
(* The console of the server shows every block once, in order, its files   *)
(* hold every block once under names that differ, and no worker misses one.*)
(***************************************************************************)
THEOREM ServerOutput ==
    Spec => [](LoggedInOrder /\ OneFilePerBlock /\ FileNamesDiffer /\ NoBlockMissed)
BY ServerUsesWorkers, ConsoleInOrder, BlocksReachOneFile, NamesAreUnique, NoWakeupLost, PTL

-----------------------------------------------------------------------------
(***************************************************************************)
(*                   The steps before a handler has ended                  *)
(***************************************************************************)

(* The steps of a sequence that are left from the k-th on.                 *)
From(s, k) == SubSeq(s, k, Len(s))

(* The rest of a sequence: its head, and what follows.                     *)
LEMMA FromParts ==
    ASSUME NEW S, NEW s \in Seq(S), NEW k \in 1 .. Len(s)
    PROVE  /\ From(s, k) # <<>> /\ Head(From(s, k)) = s[k]
           /\ Tail(From(s, k)) = From(s, k + 1)
           /\ From(s, 1) = s
           /\ From(s, Len(s) + 1) = <<>>
<1>1. Len(s) \in Nat /\ k \in Int /\ Len(s) \in k .. Len(s)
  BY LenProperties
<1>2. Len(From(s, k)) = Len(s) - k + 1
  BY <1>1, SubSeqProperties DEF From
<1>3. From(s, k) # <<>>
  BY <1>1, <1>2, EmptySeq
<1>4. Head(From(s, k)) = s[k] /\ Tail(From(s, k)) = From(s, k + 1)
  BY <1>1, HeadTailOfSubSeq DEF From
<1>5. From(s, 1) = s
  BY SubSeqFull DEF From
<1>6. From(s, Len(s) + 1) = <<>>
  BY <1>1, SubSeqEmpty DEF From
<1> QED BY <1>3, <1>4, <1>5, <1>6

(* A sequence that begins as a and goes on as b is a \o b.                  *)
LEMMA ConcatIs ==
    ASSUME NEW S, NEW a \in Seq(S), NEW b \in Seq(S), NEW s \in Seq(S),
           Len(s) = Len(a) + Len(b),
           \A i \in 1 .. Len(a) : s[i] = a[i],
           \A i \in 1 .. Len(b) : s[Len(a) + i] = b[i]
    PROVE  a \o b = s
<1> DEFINE t == a \o b
<1>1. Len(a) \in Nat /\ Len(b) \in Nat
  BY LenProperties
<1>2. t \in Seq(S) /\ Len(t) = Len(s)
  BY ConcatProperties
<1>3. ASSUME NEW i \in 1 .. Len(s) PROVE t[i] = s[i]
  <2>1. i \in 1 .. Len(a) + Len(b)
    OBVIOUS
  <2>2. t[i] = IF i <= Len(a) THEN a[i] ELSE b[i - Len(a)]
    BY <2>1, ConcatProperties
  <2> HIDE DEF t
  <2>3. CASE i <= Len(a)
    BY <1>1, <2>1, <2>2, <2>3
  <2>4. CASE ~(i <= Len(a))
    <3> DEFINE j == i - Len(a)
    <3>1. j \in 1 .. Len(b) /\ Len(a) + j = i
      BY <1>1, <2>1, <2>4
    <3>2. t[i] = b[j]
      BY <2>2, <2>4
    <3> HIDE DEF j
    <3>3. s[Len(a) + j] = b[j]
      BY <3>1
    <3> QED BY <3>1, <3>2, <3>3
  <2> QED BY <2>3, <2>4
<1> HIDE DEF t
<1>4. t = s
  BY <1>2, <1>3, SeqEqual
<1> QED BY <1>4 DEF t

(* The three programs of steps: a start of the threads, the end of a       *)
(* session, and the end of the last one.                                   *)
Starts  == <<<<"start", "log">>, <<"start", "file1">>, <<"start", "file2">>>>
Ends(c) == <<<<"notify">>, <<"disconnect", c>>, <<"remove", c>>>>
Stops(c) ==
    <<<<"notify">>, <<"terminate">>, <<"wake">>, <<"join", "log">>, <<"join", "file1">>,
      <<"join", "file2">>, <<"reset">>, <<"remove", c>>>>

(* The steps of each, one by one.                                          *)
LEMMA StartsHeads ==
    /\ Steps("start", ThreadOrder) = From(Starts, 1)
    /\ \A k \in 1 .. 3 : /\ From(Starts, k) # <<>>
                          /\ Head(From(Starts, k)) = <<"start", ThreadOrder[k]>>
                          /\ Tail(From(Starts, k)) = From(Starts, k + 1)
    /\ From(Starts, 4) = <<>>
<1>1. Starts \in Seq({<<"start", w>> : w \in Workers}) /\ Len(Starts) = 3
  BY DEF Starts, Workers
<1>2. \A k \in 1 .. 3 : Starts[k] = <<"start", ThreadOrder[k]>>
  <2>1. 1 .. 3 = {1, 2, 3}
    OBVIOUS
  <2> QED BY <2>1 DEF Starts, ThreadOrder
<1>3. Steps("start", ThreadOrder) = Starts
  BY DEF Starts, Steps, ThreadOrder
<1>4. 1 \in 1 .. Len(Starts)
  BY <1>1
<1>5. From(Starts, 1) = Starts /\ From(Starts, Len(Starts) + 1) = <<>>
  BY <1>1, <1>4, FromParts
<1>6. ASSUME NEW k \in 1 .. 3
      PROVE  /\ From(Starts, k) # <<>> /\ Head(From(Starts, k)) = Starts[k]
             /\ Tail(From(Starts, k)) = From(Starts, k + 1)
  BY <1>1, FromParts
<1> QED BY <1>1, <1>2, <1>3, <1>5, <1>6

(* The steps that end a session, one after the other.                      *)
LEMMA EndsHeads ==
    ASSUME NEW c
    PROVE  /\ From(Ends(c), 1) = <<<<"notify">>>> \o EndSession(c)
           /\ From(Ends(c), 2) = EndSession(c)
           /\ \A k \in 1 .. 3 : From(Ends(c), k) # <<>>
           /\ Head(From(Ends(c), 1)) = <<"notify">>
           /\ Head(From(Ends(c), 2)) = <<"disconnect", c>>
           /\ Head(From(Ends(c), 3)) = <<"remove", c>>
           /\ \A k \in 1 .. 2 : Tail(From(Ends(c), k)) = From(Ends(c), k + 1)
           /\ From(Ends(c), 3) = <<<<"remove", c>>>>
<1> DEFINE S == {<<"notify">>, <<"disconnect", c>>, <<"remove", c>>}
<1>1. Ends(c) \in Seq(S) /\ Len(Ends(c)) = 3
  BY DEF Ends
<1>2. Ends(c)[1] = <<"notify">> /\ Ends(c)[2] = <<"disconnect", c>> /\ Ends(c)[3] = <<"remove", c>>
  BY DEF Ends
<1>3. ASSUME NEW k \in 1 .. 3
      PROVE  /\ From(Ends(c), k) # <<>> /\ Head(From(Ends(c), k)) = Ends(c)[k]
             /\ Tail(From(Ends(c), k)) = From(Ends(c), k + 1)
             /\ From(Ends(c), 1) = Ends(c)
  <2> HIDE DEF S
  <2> QED BY <1>1, FromParts
<1>4. Tail(Ends(c)) = EndSession(c) /\ Tail(EndSession(c)) = <<<<"remove", c>>>>
  BY DEF Ends, EndSession
<1>5. <<<<"notify">>>> \o EndSession(c) = Ends(c)
  <2> DEFINE a == <<<<"notify">>>>
             b == EndSession(c)
             e == Ends(c)
  <2>1. a \in Seq(S) /\ b \in Seq(S) /\ Len(a) = 1 /\ Len(b) = 2
    <3>1. a \in Seq(S)
      OBVIOUS
    <3>2. b \in Seq(S)
      BY DEF EndSession
    <3>3. Len(a) = 1
      OBVIOUS
    <3>4. Len(b) = 2
      BY DEF EndSession
    <3> QED BY <3>1, <3>2, <3>3, <3>4
  <2>2. e[1] = a[1] /\ e[2] = b[1] /\ e[3] = b[2]
    BY DEF EndSession, Ends
  <2>3. e \in Seq(S) /\ Len(e) = 3
    BY <1>1
  <2> HIDE DEF S, a, b, e
  <2>4. 1 .. 1 = {1} /\ 1 .. 2 = {1, 2} /\ 1 + 1 = 2 /\ 1 + 2 = 3
    OBVIOUS
  <2>h1. Len(e) = Len(a) + Len(b)
    BY <2>1, <2>3
  <2>h2. \A i \in 1 .. Len(a) : e[i] = a[i]
    BY <2>1, <2>3, <2>2, <2>4
  <2>h3. \A i \in 1 .. Len(b) : e[Len(a) + i] = b[i]
    BY <2>1, <2>3, <2>2, <2>4
  <2>h4. a \in Seq(S) /\ b \in Seq(S) /\ e \in Seq(S)
    BY <2>1, <2>3
  <2>6. a \o b = e
     BY <2>h1, <2>h2, <2>h3, <2>h4, ConcatIs
  <2> QED BY <2>6 DEF a, b, e
<1>6. /\ From(Ends(c), 1) = Ends(c) /\ From(Ends(c), 2) = EndSession(c)
      /\ From(Ends(c), 3) = <<<<"remove", c>>>>
  <2>1. 1 \in 1 .. 3 /\ 2 \in 1 .. 3 /\ 1 + 1 = 2 /\ 2 + 1 = 3
    OBVIOUS
  <2>2. From(Ends(c), 1) = Ends(c) /\ Tail(From(Ends(c), 1)) = From(Ends(c), 2)
    BY <1>3, <2>1
  <2>3. Tail(From(Ends(c), 2)) = From(Ends(c), 3)
    BY <1>3, <2>1
  <2> QED BY <1>4, <2>2, <2>3
<1>7. /\ Head(From(Ends(c), 1)) = <<"notify">>
      /\ Head(From(Ends(c), 2)) = <<"disconnect", c>>
      /\ Head(From(Ends(c), 3)) = <<"remove", c>>
  BY <1>2, <1>3
<1> QED BY <1>3, <1>5, <1>6, <1>7

(* The steps that stop the threads and end the last session.               *)
LEMMA StopsHeads ==
    ASSUME NEW c
    PROVE  /\ From(Stops(c), 1) = <<<<"notify">>>> \o (StopThreads \o <<<<"remove", c>>>>)
           /\ From(Stops(c), 2) = StopThreads \o <<<<"remove", c>>>>
           /\ \A k \in 1 .. 8 : From(Stops(c), k) # <<>>
           /\ Head(From(Stops(c), 1)) = <<"notify">>
           /\ Head(From(Stops(c), 2)) = <<"terminate">>
           /\ Head(From(Stops(c), 3)) = <<"wake">>
           /\ \A i \in 1 .. 3 : Head(From(Stops(c), i + 3)) = <<"join", ThreadOrder[i]>>
           /\ Head(From(Stops(c), 7)) = <<"reset">>
           /\ \A k \in 1 .. 7 : Tail(From(Stops(c), k)) = From(Stops(c), k + 1)
           /\ From(Stops(c), 8) = From(Ends(c), 3)
<1> DEFINE s == Stops(c)
           S == {<<"notify">>, <<"terminate">>, <<"wake">>, <<"join", "log">>,
                 <<"join", "file1">>, <<"join", "file2">>, <<"reset">>, <<"remove", c>>}
           t == <<<<"terminate">>, <<"wake">>, <<"join", "log">>, <<"join", "file1">>,
                  <<"join", "file2">>, <<"reset">>>>
           l == <<<<"remove", c>>>>
           r == <<<<"terminate">>, <<"wake">>, <<"join", "log">>, <<"join", "file1">>,
                  <<"join", "file2">>, <<"reset">>, <<"remove", c>>>>
           n == <<<<"notify">>>>
<1>1. s \in Seq(S)
  BY DEF Stops
<1>2. Len(s) = 8
  BY DEF Stops
<1>3. /\ s[1] = <<"notify">> /\ s[2] = <<"terminate">> /\ s[3] = <<"wake">>
      /\ s[4] = <<"join", "log">> /\ s[5] = <<"join", "file1">> /\ s[6] = <<"join", "file2">>
      /\ s[7] = <<"reset">> /\ s[8] = <<"remove", c>>
  BY DEF Stops
<1>4. \A i \in 1 .. 3 : s[i + 3] = <<"join", ThreadOrder[i]>>
  <2>1. 1 .. 3 = {1, 2, 3}
    OBVIOUS
  <2> QED BY <1>3, <2>1 DEF ThreadOrder
<1>5. t \in Seq(S) /\ Len(t) = 6
  <2>1. t \in Seq(S)
    OBVIOUS
  <2>2. Len(t) = 6
    OBVIOUS
  <2> QED BY <2>1, <2>2
<1>6. l \in Seq(S) /\ Len(l) = 1
  <2>1. l \in Seq(S)
    OBVIOUS
  <2>2. Len(l) = 1
    OBVIOUS
  <2> QED BY <2>1, <2>2
<1>7. n \in Seq(S) /\ Len(n) = 1
  <2>1. n \in Seq(S)
    OBVIOUS
  <2>2. Len(n) = 1
    OBVIOUS
  <2> QED BY <2>1, <2>2
<1>8. r \in Seq(S) /\ Len(r) = 7 /\ Tail(s) = r
  <2>1. r \in Seq(S)
    OBVIOUS
  <2>2. Len(r) = 7
    OBVIOUS
  <2>3. Tail(s) = r
    BY DEF Stops
  <2> QED BY <2>1, <2>2, <2>3
<1>9. StopThreads = t
  <2>1. Steps("join", ThreadOrder) = <<<<"join", "log">>, <<"join", "file1">>, <<"join", "file2">>>>
    BY DEF Steps, ThreadOrder
  <2> DEFINE a == <<<<"terminate">>, <<"wake">>>>
             b == <<<<"join", "log">>, <<"join", "file1">>, <<"join", "file2">>>>
             e == <<<<"reset">>>>
  <2>2. a \in Seq(S) /\ Len(a) = 2
    <3>1. a \in Seq(S)
      OBVIOUS
    <3>2. Len(a) = 2
      OBVIOUS
    <3> QED BY <3>1, <3>2
  <2>3. b \in Seq(S) /\ Len(b) = 3
    <3>1. b \in Seq(S)
      OBVIOUS
    <3>2. Len(b) = 3
      OBVIOUS
    <3> QED BY <3>1, <3>2
  <2>4. e \in Seq(S) /\ Len(e) = 1
    <3>1. e \in Seq(S)
      OBVIOUS
    <3>2. Len(e) = 1
      OBVIOUS
    <3> QED BY <3>1, <3>2
  <2>5. /\ t[1] = a[1] /\ t[2] = a[2] /\ t[3] = b[1] /\ t[4] = b[2] /\ t[5] = b[3]
        /\ t[6] = e[1]
    <3>1. t[1] = a[1] /\ t[2] = a[2]
      OBVIOUS
    <3>2. t[3] = b[1] /\ t[4] = b[2] /\ t[5] = b[3]
      OBVIOUS
    <3>3. t[6] = e[1]
      OBVIOUS
    <3> QED BY <3>1, <3>2, <3>3
  <2>6. StopThreads = (a \o b) \o e
    BY <2>1 DEF StopThreads
  <2> DEFINE ab == <<<<"terminate">>, <<"wake">>, <<"join", "log">>, <<"join", "file1">>,
                     <<"join", "file2">>>>
  <2>7. ab \in Seq(S) /\ Len(ab) = 5
    <3>1. ab \in Seq(S)
      OBVIOUS
    <3>2. Len(ab) = 5
      OBVIOUS
    <3> QED BY <3>1, <3>2
  <2>8. ab[1] = a[1] /\ ab[2] = a[2] /\ ab[3] = b[1] /\ ab[4] = b[2] /\ ab[5] = b[3]
    <3>1. ab[1] = a[1] /\ ab[2] = a[2]
      OBVIOUS
    <3>2. ab[3] = b[1] /\ ab[4] = b[2] /\ ab[5] = b[3]
      OBVIOUS
    <3> QED BY <3>1, <3>2
  <2> HIDE DEF S, a, b, e, t, ab
  <2>9. a \o b = ab
    <3>1. 1 .. 2 = {1, 2} /\ 1 .. 3 = {1, 2, 3} /\ 2 + 1 = 3 /\ 2 + 2 = 4 /\ 2 + 3 = 5
      OBVIOUS
    <3>h1. Len(ab) = Len(a) + Len(b)
      BY <2>2, <2>3, <2>7
    <3>h2. \A i \in 1 .. Len(a) : ab[i] = a[i]
      BY <2>2, <2>3, <2>7, <2>8, <3>1
    <3>h3. \A i \in 1 .. Len(b) : ab[Len(a) + i] = b[i]
      BY <2>2, <2>3, <2>7, <2>8, <3>1
    <3>h4. a \in Seq(S) /\ b \in Seq(S) /\ ab \in Seq(S)
      BY <2>2, <2>3, <2>7
    <3> QED BY <3>h1, <3>h2, <3>h3, <3>h4, ConcatIs
  <2>10. ab \o e = t
    <3>1. 1 .. 5 = {1, 2, 3, 4, 5} /\ 1 .. 1 = {1} /\ 5 + 1 = 6
      OBVIOUS
    <3>h1. Len(t) = Len(ab) + Len(e)
      BY <1>5, <2>4, <2>7
    <3>h2. \A i \in 1 .. Len(ab) : t[i] = ab[i]
      BY <1>5, <2>4, <2>7, <2>5, <2>8, <3>1
    <3>h3. \A i \in 1 .. Len(e) : t[Len(ab) + i] = e[i]
      BY <1>5, <2>4, <2>7, <2>5, <2>8, <3>1
    <3>h4. ab \in Seq(S) /\ e \in Seq(S) /\ t \in Seq(S)
      BY <1>5, <2>4, <2>7
    <3> QED BY <3>h1, <3>h2, <3>h3, <3>h4, ConcatIs
  <2> QED BY <2>6, <2>9, <2>10
<1>10. t \o l = r
  <2>1. /\ r[1] = t[1] /\ r[2] = t[2] /\ r[3] = t[3] /\ r[4] = t[4] /\ r[5] = t[5]
        /\ r[6] = t[6] /\ r[7] = l[1]
    <3>1. r[1] = t[1] /\ r[2] = t[2] /\ r[3] = t[3]
      OBVIOUS
    <3>2. r[4] = t[4] /\ r[5] = t[5] /\ r[6] = t[6]
      OBVIOUS
    <3>3. r[7] = l[1]
      OBVIOUS
    <3> QED BY <3>1, <3>2, <3>3
  <2> HIDE DEF S, t, l, r
  <2>3. 1 .. 6 = {1, 2, 3, 4, 5, 6} /\ 1 .. 1 = {1} /\ 6 + 1 = 7
    OBVIOUS
  <2>h1. Len(r) = Len(t) + Len(l)
    BY <1>5, <1>6, <1>8
  <2>h2. \A i \in 1 .. Len(t) : r[i] = t[i]
    BY <1>5, <1>6, <1>8, <2>1, <2>3
  <2>h3. \A i \in 1 .. Len(l) : r[Len(t) + i] = l[i]
    BY <1>5, <1>6, <1>8, <2>1, <2>3
  <2>h4. t \in Seq(S) /\ l \in Seq(S) /\ r \in Seq(S)
    BY <1>5, <1>6, <1>8
  <2> QED BY <2>h1, <2>h2, <2>h3, <2>h4, ConcatIs
<1>11. n \o r = s
  <2>1. /\ s[1] = n[1] /\ s[2] = r[1] /\ s[3] = r[2] /\ s[4] = r[3] /\ s[5] = r[4]
        /\ s[6] = r[5] /\ s[7] = r[6] /\ s[8] = r[7]
    BY <1>3
  <2> HIDE DEF S, n, r, s
  <2>3. /\ 1 .. 7 = {1, 2, 3, 4, 5, 6, 7} /\ 1 .. 1 = {1} /\ 1 + 1 = 2 /\ 1 + 2 = 3
        /\ 1 + 3 = 4 /\ 1 + 4 = 5 /\ 1 + 5 = 6 /\ 1 + 6 = 7 /\ 1 + 7 = 8
    OBVIOUS
  <2>h1. Len(s) = Len(n) + Len(r)
    BY <1>1, <1>2, <1>7, <1>8
  <2>h2. \A i \in 1 .. Len(n) : s[i] = n[i]
    BY <1>1, <1>2, <1>7, <1>8, <2>1, <2>3
  <2>h3. \A i \in 1 .. Len(r) : s[Len(n) + i] = r[i]
    BY <1>1, <1>2, <1>7, <1>8, <2>1, <2>3
  <2>h4. n \in Seq(S) /\ r \in Seq(S) /\ s \in Seq(S)
    BY <1>1, <1>2, <1>7, <1>8
  <2> QED BY <2>h1, <2>h2, <2>h3, <2>h4, ConcatIs
<1>12. ASSUME NEW k \in 1 .. 8
       PROVE  /\ From(s, k) # <<>> /\ Head(From(s, k)) = s[k]
              /\ Tail(From(s, k)) = From(s, k + 1) /\ From(s, 1) = s
  <2> HIDE DEF S, s
  <2> QED BY <1>1, <1>2, FromParts
<1>13. From(s, 1) = s /\ From(s, 2) = r
  <2>1. 1 \in 1 .. 8 /\ 1 + 1 = 2
    OBVIOUS
  <2> HIDE DEF s, r
  <2> QED BY <1>8, <1>12, <2>1
<1>14. From(s, 8) = From(Ends(c), 3)
  <2>1. /\ 2 \in 1 .. 8 /\ 3 \in 1 .. 8 /\ 4 \in 1 .. 8 /\ 5 \in 1 .. 8 /\ 6 \in 1 .. 8
        /\ 7 \in 1 .. 8 /\ 2 + 1 = 3 /\ 3 + 1 = 4 /\ 4 + 1 = 5 /\ 5 + 1 = 6 /\ 6 + 1 = 7
        /\ 7 + 1 = 8
    OBVIOUS
  <2>2. From(s, 8) = Tail(Tail(Tail(Tail(Tail(Tail(r))))))
    <3> HIDE DEF s, r
    <3>1. From(s, 3) = Tail(r) /\ From(s, 4) = Tail(From(s, 3)) /\ From(s, 5) = Tail(From(s, 4))
          /\ From(s, 6) = Tail(From(s, 5)) /\ From(s, 7) = Tail(From(s, 6))
          /\ From(s, 8) = Tail(From(s, 7))
      BY <1>12, <1>13, <2>1
    <3> QED BY <3>1
  <2>3. Tail(Tail(Tail(Tail(Tail(Tail(r)))))) = <<<<"remove", c>>>>
    <3>1. Tail(r) = <<<<"wake">>, <<"join", "log">>, <<"join", "file1">>,
                      <<"join", "file2">>, <<"reset">>, <<"remove", c>>>>
      OBVIOUS
    <3>2. Tail(Tail(r)) = <<<<"join", "log">>, <<"join", "file1">>,
                      <<"join", "file2">>, <<"reset">>, <<"remove", c>>>>
      BY <3>1
    <3>3. Tail(Tail(Tail(r)))
            = <<<<"join", "file1">>, <<"join", "file2">>, <<"reset">>, <<"remove", c>>>>
      BY <3>2
    <3>4. Tail(Tail(Tail(Tail(r)))) = <<<<"join", "file2">>, <<"reset">>, <<"remove", c>>>>
      BY <3>3
    <3>5. Tail(Tail(Tail(Tail(Tail(r))))) = <<<<"reset">>, <<"remove", c>>>>
      BY <3>4
    <3> QED BY <3>5
  <2> QED BY <2>2, <2>3, EndsHeads
<1>15. /\ Head(From(s, 1)) = <<"notify">> /\ Head(From(s, 2)) = <<"terminate">>
       /\ Head(From(s, 3)) = <<"wake">> /\ Head(From(s, 7)) = <<"reset">>
       /\ \A i \in 1 .. 3 : Head(From(s, i + 3)) = <<"join", ThreadOrder[i]>>
  <2> HIDE DEF s
  <2>1. 1 \in 1 .. 8 /\ 2 \in 1 .. 8 /\ 3 \in 1 .. 8 /\ 7 \in 1 .. 8
        /\ \A i \in 1 .. 3 : i + 3 \in 1 .. 8
    OBVIOUS
  <2> QED BY <1>3, <1>4, <1>12, <2>1
<1>16. \A k \in 1 .. 8 : From(s, k) # <<>>
  BY <1>12
<1>17. \A k \in 1 .. 7 : Tail(From(s, k)) = From(s, k + 1)
  <2> HIDE DEF s
  <2>1. \A k \in 1 .. 7 : k \in 1 .. 8
    OBVIOUS
  <2> QED BY <1>12, <2>1
<1>18. From(s, 1) = n \o (StopThreads \o l) /\ From(s, 2) = StopThreads \o l
  <2> HIDE DEF s, n, t, l, r
  <2> QED BY <1>9, <1>10, <1>11, <1>13
<1> QED BY <1>14, <1>15, <1>16, <1>17, <1>18

-----------------------------------------------------------------------------
(***************************************************************************)
(*                               The sessions                              *)
(***************************************************************************)

(* The connections whose session is kept.                                  *)
Kept == {c \in Connections : phase[c] \in {"open", "failed"}}

SessionsInv ==
    /\ phase \in [Connections -> Phase]
    /\ sessions_ \in Seq(Connections)
    /\ IsInjective(sessions_)
    /\ ToSet(sessions_) = Kept

(* What is in a sequence, by its places.                                   *)
LEMMA InToSet ==
    ASSUME NEW S, NEW s \in Seq(S)
    PROVE  /\ \A x : x \in ToSet(s) <=> \E i \in 1 .. Len(s) : x = s[i]
           /\ IsInjective(s) <=> \A i, j \in 1 .. Len(s) : s[i] = s[j] => i = j
<1>1. DOMAIN s = 1 .. Len(s)
  BY LenProperties
<1> QED BY <1>1 DEF ToSet, IsInjective

(* A new session at the end.                                               *)
LEMMA AppendSession ==
    ASSUME NEW S, NEW s \in Seq(S), NEW c \in S, IsInjective(s), c \notin ToSet(s)
    PROVE  /\ Append(s, c) \in Seq(S) /\ IsInjective(Append(s, c))
           /\ ToSet(Append(s, c)) = ToSet(s) \cup {c}
<1> DEFINE t == Append(s, c)
<1>1. /\ t \in Seq(S) /\ Len(t) = Len(s) + 1 /\ Len(s) \in Nat
      /\ \A i \in 1 .. Len(s) : t[i] = s[i]
      /\ t[Len(s) + 1] = c
  BY AppendProperties, LenProperties
<1> HIDE DEF t
<1>2. ASSUME NEW i \in 1 .. Len(t), NEW j \in 1 .. Len(t), t[i] = t[j] PROVE i = j
  <2>1. \A k \in 1 .. Len(t) : k \in 1 .. Len(s) \/ k = Len(s) + 1
    BY <1>1
  <2>2. \A k \in 1 .. Len(s) : s[k] # c
    BY InToSet
  <2>3. \A k, l \in 1 .. Len(s) : s[k] = s[l] => k = l
    BY InToSet
  <2> QED BY <1>1, <1>2, <2>1, <2>2, <2>3
<1>3. \A x : x \in ToSet(t) <=> x \in ToSet(s) \cup {c}
  <2>1. \A k \in 1 .. Len(t) : k \in 1 .. Len(s) \/ k = Len(s) + 1
    BY <1>1
  <2>2. \A k \in 1 .. Len(s) : k \in 1 .. Len(t)
    BY <1>1
  <2>3. Len(s) + 1 \in 1 .. Len(t)
    BY <1>1
  <2> QED BY <1>1, <2>1, <2>2, <2>3, InToSet
<1>4. IsInjective(t)
  BY <1>1, <1>2, InToSet
<1>5. ToSet(t) = ToSet(s) \cup {c}
  BY <1>3
<1> QED BY <1>1, <1>4, <1>5 DEF t

(* A session taken out, wherever it is.                                    *)
LEMMA RemoveSessionAt ==
    ASSUME NEW S, NEW s \in Seq(S), NEW i \in 1 .. Len(s), IsInjective(s)
    PROVE  /\ RemoveAt(s, i) \in Seq(S) /\ IsInjective(RemoveAt(s, i))
           /\ ToSet(RemoveAt(s, i)) = ToSet(s) \ {s[i]}
<1> DEFINE a == SubSeq(s, 1, i - 1)
           b == SubSeq(s, i + 1, Len(s))
           t == a \o b
           At(k) == IF k < i THEN k ELSE k + 1
<1>1. Len(s) \in Nat /\ i \in Nat /\ i >= 1 /\ i <= Len(s)
  BY LenProperties
<1>2. /\ a \in Seq(S) /\ Len(a) = i - 1
      /\ \A k \in 1 .. i - 1 : a[k] = s[k]
  <2>1. \A k \in 1 .. i - 1 : k \in 1 .. Len(s) /\ 1 + k - 1 = k
    BY <1>1
  <2> QED BY <1>1, <2>1, SubSeqProperties
<1>3. /\ b \in Seq(S) /\ Len(b) = Len(s) - i
      /\ \A k \in 1 .. Len(s) - i : b[k] = s[i + k]
  <2>1. \A k \in 1 .. Len(s) - i : i + k \in 1 .. Len(s) /\ i + 1 + k - 1 = i + k
    BY <1>1
  <2> QED BY <1>1, <2>1, SubSeqProperties
<1> HIDE DEF a, b
<1>4. /\ t \in Seq(S) /\ Len(t) = Len(s) - 1
      /\ \A k \in 1 .. Len(s) - 1 : t[k] = IF k <= Len(a) THEN a[k] ELSE b[k - Len(a)]
  <2>1. Len(a) + Len(b) = Len(s) - 1
    BY <1>1, <1>2, <1>3
  <2>2. /\ t \in Seq(S) /\ Len(t) = Len(a) + Len(b)
        /\ \A k \in 1 .. Len(a) + Len(b) : t[k] = IF k <= Len(a) THEN a[k] ELSE b[k - Len(a)]
    BY <1>2, <1>3, ConcatProperties
  <2> HIDE DEF t
  <2> QED BY <2>1, <2>2
<1> HIDE DEF t
<1>5. ASSUME NEW k \in 1 .. Len(s) - 1
      PROVE  At(k) \in 1 .. Len(s) /\ At(k) # i /\ t[k] = s[At(k)]
  <2>1. CASE k < i
    <3>1. At(k) = k /\ k \in 1 .. Len(s) /\ k # i /\ k \in 1 .. i - 1 /\ k <= i - 1
      BY <1>1, <2>1
    <3> HIDE DEF At
    <3>2. t[k] = a[k]
      BY <1>2, <1>4, <3>1
    <3> QED BY <1>2, <3>1, <3>2
  <2>2. CASE ~(k < i)
    <3> DEFINE l == k - (i - 1)
    <3>1. l \in 1 .. Len(s) - i /\ i + l = k + 1 /\ ~(k <= i - 1)
      BY <1>1, <2>2
    <3>2. t[k] = b[l]
      BY <1>2, <1>4, <3>1
    <3> HIDE DEF l
    <3>3. b[l] = s[k + 1]
      BY <1>3, <3>1
    <3>4. At(k) = k + 1 /\ k + 1 \in 1 .. Len(s) /\ k + 1 # i
      BY <1>1, <2>2
    <3> HIDE DEF At
    <3> QED BY <3>2, <3>3, <3>4
  <2> QED BY <2>1, <2>2
<1>6. ASSUME NEW j \in 1 .. Len(s), j # i
      PROVE  \E k \in 1 .. Len(s) - 1 : At(k) = j
  <2>1. CASE j < i
    BY <1>1, <2>1
  <2>2. CASE j > i
    <3>1. j - 1 \in 1 .. Len(s) - 1 /\ At(j - 1) = j
      BY <1>1, <2>2
    <3> QED BY <3>1
  <2> QED BY <1>1, <1>6, <2>1, <2>2
<1>7. ASSUME NEW j \in 1 .. Len(s) - 1, NEW k \in 1 .. Len(s) - 1, At(j) = At(k) PROVE j = k
  BY <1>1, <1>7
<1> HIDE DEF At
<1>8. IsInjective(t)
  <2>1. ASSUME NEW j \in 1 .. Len(s) - 1, NEW k \in 1 .. Len(s) - 1, t[j] = t[k] PROVE j = k
    <3>1. s[At(j)] = s[At(k)] /\ At(j) \in 1 .. Len(s) /\ At(k) \in 1 .. Len(s)
      BY <1>5, <2>1
    <3>2. At(j) = At(k)
      BY <3>1, InToSet
    <3> QED BY <1>7, <3>2
  <2> QED BY <1>4, <2>1, InToSet
<1>9. ASSUME NEW x PROVE x \in ToSet(t) <=> x \in ToSet(s) \ {s[i]}
  <2>1. ASSUME x \in ToSet(t) PROVE x \in ToSet(s) /\ x # s[i]
    <3>1. PICK k \in 1 .. Len(s) - 1 : x = t[k]
      BY <1>4, <2>1, InToSet
    <3>2. x = s[At(k)] /\ At(k) \in 1 .. Len(s) /\ At(k) # i
      BY <1>5, <3>1
    <3>3. s[At(k)] # s[i]
      BY <3>2, InToSet
    <3> QED BY <3>2, <3>3, InToSet
  <2>2. ASSUME x \in ToSet(s), x # s[i] PROVE x \in ToSet(t)
    <3>1. PICK j \in 1 .. Len(s) : x = s[j]
      BY <2>2, InToSet
    <3>2. PICK k \in 1 .. Len(s) - 1 : At(k) = j
      BY <1>6, <2>2, <3>1
    <3>3. t[k] = x
      BY <1>5, <3>1, <3>2
    <3> QED BY <1>4, <3>3, InToSet
  <2> QED BY <2>1, <2>2
<1>10. ToSet(t) = ToSet(s) \ {s[i]}
  BY <1>9
<1>11. RemoveAt(s, i) = t
  BY DEF RemoveAt, t, a, b
<1> QED BY <1>4, <1>8, <1>10, <1>11

(* There are no sessions at first.                                         *)
LEMMA SessionsInit == Init => SessionsInv
<1> SUFFICES ASSUME Init PROVE SessionsInv
  OBVIOUS
<1>1. sessions_ = <<>> /\ sessions_ \in Seq(Connections) /\ Len(sessions_) = 0
  BY DEF Init
<1>2. phase \in [Connections -> Phase] /\ Kept = {}
  BY DEF Init, Phase, Kept
<1>3. IsInjective(sessions_) /\ ToSet(sessions_) = {}
  <2>1. \A i \in 1 .. Len(sessions_) : FALSE
    BY <1>1
  <2>2. IsInjective(sessions_)
    BY <1>1, <2>1, InToSet
  <2>3. ToSet(sessions_) = {}
    BY <1>1, <2>1, InToSet
  <2> QED BY <2>2, <2>3
<1> QED BY <1>1, <1>2, <1>3 DEF SessionsInv

(* Only an accept, an error and a session's end change sessions and phases *)
(* beyond the arrival of a connection.                                     *)
LEMMA SessionsKept ==
    ASSUME SessionsInv, sessions_' = sessions_, phase' \in [Connections -> Phase],
           \A c \in Connections : phase'[c] \in {"open", "failed"}
                                   <=> phase[c] \in {"open", "failed"}
    PROVE  SessionsInv' /\ Kept' = Kept
BY DEF SessionsInv, Kept

(* Every step keeps each session once, while it is open or has failed.     *)
LEMMA SessionsStep == SessionsInv /\ [Next]_vars => SessionsInv'
<1> SUFFICES ASSUME SessionsInv, [Next]_vars PROVE SessionsInv'
  OBVIOUS
<1>1. ASSUME NEW c \in Connections, Client(c) PROVE SessionsInv'
  <2>1. sessions_' = sessions_ /\ phase' \in [Connections -> Phase]
    BY <1>1 DEF Client, ClientConnect, ClientCloses, ConnectionBreaks, SessionsInv, Phase
  <2>2. \A d \in Connections : phase'[d] \in {"open", "failed"} <=> phase[d] \in {"open", "failed"}
    BY <1>1 DEF Client, ClientConnect, ClientCloses, ConnectionBreaks, SessionsInv, Phase
  <2> QED BY <2>1, <2>2, SessionsKept
<1>2. ASSUME NEW c \in Connections, Accept(c) PROVE SessionsInv'
  <2>1. /\ phase[c] = "asking" /\ phase' = [phase EXCEPT ![c] = "open"]
        /\ sessions_' = Append(sessions_, c)
    BY <1>2 DEF Accept
  <2>2. c \notin ToSet(sessions_) /\ Kept' = Kept \cup {c} /\ phase' \in [Connections -> Phase]
    BY <2>1 DEF SessionsInv, Kept, Phase
  <2>3. /\ sessions_' \in Seq(Connections) /\ IsInjective(sessions_')
        /\ ToSet(sessions_') = ToSet(sessions_) \cup {c}
    BY <2>1, <2>2, AppendSession DEF SessionsInv
  <2> QED BY <2>2, <2>3 DEF SessionsInv
<1>3. ASSUME NEW c \in Connections, HandleLine(c) \/ HandleEof(c) PROVE SessionsInv'
  BY <1>3, SessionsKept DEF HandleLine, HandleEof, SessionsInv
<1>4. ASSUME NEW c \in Connections, HandleError(c) PROVE SessionsInv'
  <2>1. sessions_' = sessions_ /\ phase' \in [Connections -> Phase]
    BY <1>4 DEF HandleError, SessionsInv, Phase
  <2>2. \A d \in Connections : phase'[d] \in {"open", "failed"} <=> phase[d] \in {"open", "failed"}
    BY <1>4 DEF HandleError, Reading, SessionsInv
  <2> QED BY <2>1, <2>2, SessionsKept
<1>5. ASSUME NEW c \in Connections, RemoveSession(c) PROVE SessionsInv'
  <2>1. PICK i \in 1 .. Len(sessions_) : sessions_[i] = c /\ sessions_' = RemoveAt(sessions_, i)
    BY <1>5 DEF RemoveSession
  <2>2. /\ sessions_' \in Seq(Connections) /\ IsInjective(sessions_')
        /\ ToSet(sessions_') = ToSet(sessions_) \ {c}
    BY <2>1, RemoveSessionAt DEF SessionsInv
  <2>3. phase' \in [Connections -> Phase] /\ Kept' = Kept \ {c}
    BY <1>5 DEF RemoveSession, SessionsInv, Kept, Phase
  <2> QED BY <2>2, <2>3 DEF SessionsInv
<1>6. ASSUME UNCHANGED <<sessions_, phase>> PROVE SessionsInv'
  BY <1>6, SessionsKept DEF SessionsInv
<1>7. ASSUME NEW c \in Connections, Disconnect(c) PROVE UNCHANGED <<sessions_, phase>>
  BY <1>7 DEF Disconnect
<1>8. ASSUME NEW w \in Workers, Start(w) \/ JoinNext(w) PROVE UNCHANGED <<sessions_, phase>>
  BY <1>8 DEF Start, JoinNext
<1>9. CASE Step
  <2>1. CASE Notify \/ Terminate \/ Wake \/ Reset
    BY <1>6, <2>1 DEF Notify, Terminate, Wake, Reset
  <2> QED BY <1>5, <1>6, <1>7, <1>8, <1>9, <2>1 DEF Step
<1>10. ASSUME NEW w \in Workers, Worker(w) \/ Wakeup(w) PROVE UNCHANGED <<sessions_, phase>>
  BY <1>10 DEF Worker, Wakeup
<1>11. CASE Stop
  BY <1>6, <1>11 DEF Stop
<1>12. CASE UNCHANGED vars
  BY <1>6, <1>12 DEF vars
<1> QED BY <1>1, <1>2, <1>3, <1>4, <1>6, <1>9, <1>10, <1>11, <1>12 DEF Next, Handler

-----------------------------------------------------------------------------
(***************************************************************************)
(*                      The stages of the handlers                         *)
(***************************************************************************)

(* There is a manager with its threads just as long as there is a context, *)
(* and no static block without one.                                        *)
Managed ==
    /\ shared <=> contexts # {}
    /\ threads_initialized <=> contexts # {}
    /\ contexts = {} => static = <<>>

(* Where the handler that runs is: nowhere; before the notification of a   *)
(* line; starting the threads; ending a session that still has its context;*)
(* removing one that has none; stopping the threads after the last session.*)
Resting        == todo = <<>> /\ Managed /\ contexts = Kept /\ (stopped => sessions_ = <<>>)
Notifying      == /\ todo = <<<<"notify">>>>
                  /\ Managed /\ contexts = Kept /\ contexts # {} /\ ~stopped
Starting(k)    == /\ todo = From(Starts, k)
                  /\ Managed /\ contexts = Kept /\ contexts # {} /\ ~stopped
Ending(c, k)   == c \in Kept /\ todo = From(Ends(c), k) /\ Managed /\ contexts = Kept
Removing(c)    == c \in Kept /\ todo = From(Ends(c), 3) /\ Managed /\ contexts = Kept \ {c}
Stopping(c, k) == /\ todo = From(Stops(c), k) /\ Kept = {c} /\ contexts = {}
                  /\ shared /\ ~threads_initialized /\ static = <<>>

StageInv ==
    \/ Resting
    \/ Notifying
    \/ \E k \in 1 .. 3 : Starting(k)
    \/ \E c \in Connections, k \in 1 .. 2 : Ending(c, k)
    \/ \E c \in Connections : Removing(c)
    \/ \E c \in Connections, k \in 1 .. 7 : Stopping(c, k)

(* The next step tells the stage.                                          *)
LEMMA StageOfStep ==
    ASSUME StageInv
    PROVE  /\ todo = <<>> => Resting
           /\ Doing(<<"notify">>) =>
                 \/ Notifying
                 \/ \E c \in Connections : Ending(c, 1) \/ Stopping(c, 1)
           /\ \A w \in Workers : Doing(<<"start", w>>) =>
                 \E k \in 1 .. 3 : w = ThreadOrder[k] /\ Starting(k)
           /\ \A c \in Connections : Doing(<<"disconnect", c>>) => Ending(c, 2)
           /\ \A c \in Connections : Doing(<<"remove", c>>) => Removing(c)
           /\ Doing(<<"terminate">>) => \E c \in Connections : Stopping(c, 2)
           /\ Doing(<<"wake">>) => \E c \in Connections : Stopping(c, 3)
           /\ \A w \in Workers : Doing(<<"join", w>>) =>
                 \E c \in Connections, i \in 1 .. 3 : w = ThreadOrder[i] /\ Stopping(c, i + 3)
           /\ Doing(<<"reset">>) => \E c \in Connections : Stopping(c, 7)
<1>1. CASE Resting
  BY <1>1 DEF Resting, Doing
<1>2. CASE Notifying
  <2>1. todo # <<>> /\ Head(todo) = <<"notify">>
    BY <1>2 DEF Notifying
  <2> QED BY <1>2, <2>1 DEF Doing
<1>3. ASSUME NEW k \in 1 .. 3, Starting(k)
      PROVE  todo # <<>> /\ Head(todo) = <<"start", ThreadOrder[k]>>
  BY <1>3, StartsHeads DEF Starting
<1>4. CASE \E k \in 1 .. 3 : Starting(k)
  <2>1. PICK k \in 1 .. 3 : Starting(k)
    BY <1>4
  <2>2. todo # <<>> /\ Head(todo) = <<"start", ThreadOrder[k]>>
    BY <1>3, <2>1
  <2>3. \A w : Doing(<<"start", w>>) => w = ThreadOrder[k]
    BY <2>2 DEF Doing
  <2> QED BY <2>1, <2>2, <2>3 DEF Doing
<1>5. ASSUME NEW c \in Connections, Ending(c, 1)
      PROVE  todo # <<>> /\ Head(todo) = <<"notify">>
  BY <1>5, EndsHeads DEF Ending
<1>6. ASSUME NEW c \in Connections, Ending(c, 2)
      PROVE  todo # <<>> /\ Head(todo) = <<"disconnect", c>>
  BY <1>6, EndsHeads DEF Ending
<1>7. ASSUME NEW c \in Connections, Removing(c)
      PROVE  todo # <<>> /\ Head(todo) = <<"remove", c>>
  BY <1>7, EndsHeads DEF Removing
<1>8. CASE \E c \in Connections, k \in 1 .. 2 : Ending(c, k)
  <2>1. PICK c \in Connections, k \in 1 .. 2 : Ending(c, k)
    BY <1>8
  <2>2. CASE k = 1
    <3>1. todo # <<>> /\ Head(todo) = <<"notify">> /\ Ending(c, 1)
      BY <1>5, <2>1, <2>2
    <3> QED BY <3>1 DEF Doing
  <2>3. CASE k = 2
    <3>1. todo # <<>> /\ Head(todo) = <<"disconnect", c>> /\ Ending(c, 2)
      BY <1>6, <2>1, <2>3
    <3>2. \A d : Doing(<<"disconnect", d>>) => d = c
      BY <3>1 DEF Doing
    <3> QED BY <3>1, <3>2 DEF Doing
  <2> QED BY <2>2, <2>3
<1>9. CASE \E c \in Connections : Removing(c)
  <2>1. PICK c \in Connections : Removing(c)
    BY <1>9
  <2>2. todo # <<>> /\ Head(todo) = <<"remove", c>>
    BY <1>7, <2>1
  <2>3. \A d : Doing(<<"remove", d>>) => d = c
    BY <2>2 DEF Doing
  <2> QED BY <2>1, <2>2, <2>3 DEF Doing
<1>10. CASE \E c \in Connections, k \in 1 .. 7 : Stopping(c, k)
  <2>1. PICK c \in Connections, k \in 1 .. 7 : Stopping(c, k)
    BY <1>10
  <2>2. todo = From(Stops(c), k) /\ todo # <<>>
    <3>1. todo = From(Stops(c), k)
      BY <2>1 DEF Stopping
    <3>2. k \in 1 .. 8
      OBVIOUS
    <3>3. From(Stops(c), k) # <<>>
      BY <3>2, StopsHeads
    <3> QED BY <3>1, <3>3
  <2>3. CASE k = 1
    <3>1. Head(todo) = <<"notify">> /\ Stopping(c, 1)
      BY <2>1, <2>2, <2>3, StopsHeads
    <3> QED BY <2>2, <3>1 DEF Doing
  <2>4. CASE k = 2
    <3>1. Head(todo) = <<"terminate">> /\ Stopping(c, 2)
      BY <2>1, <2>2, <2>4, StopsHeads
    <3> QED BY <2>2, <3>1 DEF Doing
  <2>5. CASE k = 3
    <3>1. Head(todo) = <<"wake">> /\ Stopping(c, 3)
      BY <2>1, <2>2, <2>5, StopsHeads
    <3> QED BY <2>2, <3>1 DEF Doing
  <2>6. CASE k \in 4 .. 6
    <3>1. PICK i \in 1 .. 3 : k = i + 3
      <4>1. k - 3 \in 1 .. 3 /\ k = (k - 3) + 3
        BY <2>6
      <4> QED BY <4>1
    <3>2. Head(todo) = <<"join", ThreadOrder[i]>> /\ Stopping(c, i + 3)
      BY <2>1, <2>2, <3>1, StopsHeads
    <3>3. \A w : Doing(<<"join", w>>) => w = ThreadOrder[i]
      BY <3>2 DEF Doing
    <3> QED BY <2>2, <3>2, <3>3 DEF Doing
  <2>7. CASE k = 7
    <3>1. Head(todo) = <<"reset">> /\ Stopping(c, 7)
      BY <2>1, <2>2, <2>7, StopsHeads
    <3> QED BY <2>2, <3>1 DEF Doing
  <2>8. k \in {1, 2, 3, 7} \/ k \in 4 .. 6
    OBVIOUS
  <2> QED BY <2>3, <2>4, <2>5, <2>6, <2>7, <2>8
<1> QED BY <1>1, <1>2, <1>4, <1>8, <1>9, <1>10 DEF StageInv

(* The other steps of a stage lead to its next one.                        *)
LEMMA NextStages ==
    /\ \A k \in 1 .. 2 : Tail(From(Starts, k)) = From(Starts, k + 1)
    /\ Tail(From(Starts, 3)) = <<>>
    /\ \A c : Tail(From(Ends(c), 1)) = From(Ends(c), 2)
    /\ \A c : Tail(From(Ends(c), 2)) = From(Ends(c), 3)
    /\ \A c : \A k \in 1 .. 6 : Tail(From(Stops(c), k)) = From(Stops(c), k + 1)
    /\ \A c : Tail(From(Stops(c), 7)) = From(Ends(c), 3)
    /\ Tail(<<<<"notify">>>>) = <<>>
<1>1. /\ \A k \in 1 .. 2 : Tail(From(Starts, k)) = From(Starts, k + 1)
      /\ Tail(From(Starts, 3)) = <<>>
  <2>1. 3 \in 1 .. 3 /\ 3 + 1 = 4 /\ \A k \in 1 .. 2 : k \in 1 .. 3
    OBVIOUS
  <2> QED BY <2>1, StartsHeads
<1>2. ASSUME NEW c
      PROVE  Tail(From(Ends(c), 1)) = From(Ends(c), 2) /\ Tail(From(Ends(c), 2)) = From(Ends(c), 3)
  <2>1. 1 \in 1 .. 2 /\ 2 \in 1 .. 2 /\ 1 + 1 = 2 /\ 2 + 1 = 3
    OBVIOUS
  <2> QED BY <2>1, EndsHeads
<1>3. ASSUME NEW c
      PROVE  /\ \A k \in 1 .. 6 : Tail(From(Stops(c), k)) = From(Stops(c), k + 1)
             /\ Tail(From(Stops(c), 7)) = From(Ends(c), 3)
  <2>1. 7 \in 1 .. 7 /\ 7 + 1 = 8 /\ \A k \in 1 .. 6 : k \in 1 .. 7
    OBVIOUS
  <2> QED BY <2>1, StopsHeads
<1>4. Tail(<<<<"notify">>>>) = <<>>
  OBVIOUS
<1> QED BY <1>1, <1>2, <1>3, <1>4

(* What is left to do after a handler has handed over a block, or none.    *)
LEMMA HandOverTodo ==
    ASSUME NEW kind, NEW commands, NEW rest, HandOver(kind, commands, rest)
    PROVE  todo' = rest \/ todo' = <<<<"notify">>>> \o rest
BY DEF HandOver

(* What is left to do after process_command.                               *)
LEMMA ProcessTodo ==
    ASSUME NEW c, NEW text, NEW rest, process_command(c, text, rest)
    PROVE  todo' = rest \/ todo' = <<<<"notify">>>> \o rest
BY HandOverTodo DEF process_command, OpenBrace, CloseBrace, Command

(* At first no handler runs.                                               *)
LEMMA StageInit == Init => StageInv
BY DEF Init, StageInv, Resting, Managed, Kept

(* Nothing that a stage speaks of changes.                                 *)
LEMMA StageSame ==
    ASSUME StageInv, Kept' = Kept,
           UNCHANGED <<todo, threads_initialized, shared, static, contexts, stopped, sessions_>>
    PROVE  StageInv'
BY DEF StageInv, Resting, Notifying, Starting, Ending, Removing, Stopping, Managed

(* An accept starts the threads, unless they run.                          *)
LEMMA AcceptStage ==
    ASSUME SessionsInv, StageInv, NEW c \in Connections, Accept(c)
    PROVE  StageInv'
<1>1. Resting /\ ~stopped /\ ~stopped'
  BY StageOfStep DEF Accept
<1>2. phase[c] = "asking" /\ phase' = [phase EXCEPT ![c] = "open"]
  BY DEF Accept
<1>3. Kept' = Kept \cup {c}
  BY <1>2 DEF Kept, SessionsInv
<1>4. /\ contexts' = Kept' /\ contexts' # {} /\ shared' = TRUE
      /\ threads_initialized' = TRUE
  BY <1>1, <1>3 DEF Accept, Resting, Managed
<1>5. Managed'
  BY <1>4 DEF Managed
<1>6. CASE todo' = Steps("start", ThreadOrder)
  <2>1. Starting(1)'
    BY <1>1, <1>4, <1>5, <1>6, StartsHeads DEF Starting
  <2> QED BY <2>1 DEF StageInv
<1>7. CASE todo' = todo
  <2>1. Resting'
    BY <1>1, <1>4, <1>5, <1>7 DEF Resting
  <2> QED BY <2>1 DEF StageInv
<1> QED BY <1>6, <1>7 DEF Accept

(* A line leads to a notification, the end of file to a disconnect.        *)
LEMMA ReadStage ==
    ASSUME SessionsInv, StageInv, NEW c \in Connections,
           HandleLine(c) \/ HandleEof(c) \/ HandleError(c)
    PROVE  StageInv'
<1>1. /\ Resting /\ ~stopped /\ c \in Kept
      /\ UNCHANGED <<sessions_, stopped, threads_initialized, shared, contexts>>
  BY StageOfStep DEF HandleLine, HandleEof, HandleError, Reading, Kept, process_command, asyncVars
<1>2. contexts = Kept /\ contexts # {} /\ Managed
  BY <1>1 DEF Resting
<1>3. Managed'
  BY <1>1, <1>2 DEF Managed
<1>4. CASE HandleLine(c)
  <2>1. Kept' = Kept
    BY <1>4 DEF HandleLine, Kept
  <2>2. todo' = <<>> \/ todo' = <<<<"notify">>>>
    <3>1. todo' = <<>> \/ todo' = <<<<"notify">>>> \o <<>>
      BY <1>4, ProcessTodo DEF HandleLine
    <3>2. <<<<"notify">>>> \o <<>> = <<<<"notify">>>>
      OBVIOUS
    <3> QED BY <3>1, <3>2
  <2>3. Resting' \/ Notifying'
    BY <1>1, <1>2, <1>3, <2>1, <2>2 DEF Resting, Notifying
  <2> QED BY <2>3 DEF StageInv
<1>5. CASE HandleEof(c)
  <2>1. Kept' = Kept
    BY <1>5 DEF HandleEof, Kept
  <2>2. todo' = EndSession(c) \/ todo' = <<<<"notify">>>> \o EndSession(c)
    BY <1>5, ProcessTodo DEF HandleEof
  <2>3. todo' = From(Ends(c), 1) \/ todo' = From(Ends(c), 2)
    BY <2>2, EndsHeads
  <2>4. Ending(c, 1)' \/ Ending(c, 2)'
    BY <1>1, <1>2, <1>3, <2>1, <2>3 DEF Ending
  <2>5. 1 \in 1 .. 2 /\ 2 \in 1 .. 2
    OBVIOUS
  <2> QED BY <2>4, <2>5 DEF StageInv
<1>6. CASE HandleError(c)
  <2>1. Kept' = Kept
    BY <1>6 DEF HandleError, Reading, Kept, SessionsInv
  <2> QED BY <1>6, <2>1, StageSame DEF HandleError, asyncVars
<1> QED BY <1>4, <1>5, <1>6

(* After a notification the handler has ended or goes on to disconnect or  *)
(* to stop the threads.                                                    *)
LEMMA NotifyStage ==
    ASSUME StageInv, Notify
    PROVE  StageInv'
<1>1. /\ Doing(<<"notify">>) /\ todo' = Tail(todo)
      /\ UNCHANGED <<threads_initialized, shared, static, contexts, stopped, sessions_, phase>>
  BY DEF Notify, asyncVars
<1>2. Kept' = Kept /\ (Managed => Managed')
  BY <1>1 DEF Kept, Managed
<1>3. CASE Notifying
  <2>1. Resting'
    BY <1>1, <1>2, <1>3, NextStages DEF Notifying, Resting
  <2> QED BY <2>1 DEF StageInv
<1>4. ASSUME NEW c \in Connections, Ending(c, 1) PROVE StageInv'
  <2>1. Ending(c, 2)'
    BY <1>1, <1>2, <1>4, NextStages DEF Ending
  <2>2. 2 \in 1 .. 2
    OBVIOUS
  <2> QED BY <2>1, <2>2 DEF StageInv
<1>5. ASSUME NEW c \in Connections, Stopping(c, 1) PROVE StageInv'
  <2>1. 2 \in 1 .. 7 /\ 1 \in 1 .. 6 /\ 1 + 1 = 2
    OBVIOUS
  <2>2. Tail(From(Stops(c), 1)) = From(Stops(c), 2)
    BY <2>1, NextStages
  <2>3. Stopping(c, 2)'
    BY <1>1, <1>2, <1>5, <2>2 DEF Stopping
  <2> QED BY <2>1, <2>3 DEF StageInv
<1> QED BY <1>1, <1>3, <1>4, <1>5, StageOfStep

(* One thread more has been started.                                       *)
LEMMA StartStage ==
    ASSUME StageInv, NEW w \in Workers, Start(w)
    PROVE  StageInv'
<1>1. /\ Doing(<<"start", w>>) /\ todo' = Tail(todo)
      /\ UNCHANGED <<threads_initialized, shared, static, contexts, stopped, sessions_, phase>>
  BY DEF Start, asyncVars
<1>2. Kept' = Kept /\ (Managed => Managed')
  BY <1>1 DEF Kept, Managed
<1>3. PICK k \in 1 .. 3 : Starting(k)
  BY <1>1, StageOfStep
<1>4. CASE k = 3
  <2>1. Resting'
    BY <1>1, <1>2, <1>3, <1>4, NextStages DEF Starting, Resting
  <2> QED BY <2>1 DEF StageInv
<1>5. CASE k # 3
  <2>1. k \in 1 .. 2 /\ k + 1 \in 1 .. 3
    BY <1>5
  <2>2. Starting(k + 1)'
    BY <1>1, <1>2, <1>3, <2>1, NextStages DEF Starting
  <2> QED BY <2>1, <2>2 DEF StageInv
<1> QED BY <1>4, <1>5

(* A step of the stop of the threads, but the last one.                    *)
LEMMA StoppingStage ==
    ASSUME StageInv, NEW c \in Connections, NEW k \in 1 .. 6, Stopping(c, k),
           todo' = Tail(todo),
           UNCHANGED <<threads_initialized, shared, static, contexts, phase>>
    PROVE  StageInv' /\ Stopping(c, k + 1)'
<1>1. Kept' = Kept /\ k + 1 \in 1 .. 7
  BY DEF Kept
<1>2. Stopping(c, k + 1)'
  BY <1>1, NextStages DEF Stopping
<1> QED BY <1>1, <1>2 DEF StageInv

(* The next step of stopping the threads.                                  *)
LEMMA StopStages ==
    ASSUME StageInv, Terminate \/ Wake \/ \E w \in Workers : JoinNext(w)
    PROVE  StageInv'
<1>1. /\ todo' = Tail(todo)
      /\ UNCHANGED <<threads_initialized, shared, static, contexts, phase>>
  BY DEF Terminate, Wake, JoinNext, asyncVars
<1>2. PICK c \in Connections, k \in 1 .. 6 : Stopping(c, k)
  <2>1. CASE Terminate
    BY <2>1, StageOfStep, 2 \in 1 .. 6 DEF Terminate
  <2>2. CASE Wake
    BY <2>2, StageOfStep, 3 \in 1 .. 6 DEF Wake
  <2>3. ASSUME NEW w \in Workers, JoinNext(w)
        PROVE  \E c \in Connections, k \in 1 .. 6 : Stopping(c, k)
    <3>1. PICK c \in Connections, i \in 1 .. 3 : Stopping(c, i + 3)
      BY <2>3, StageOfStep DEF JoinNext
    <3>2. i + 3 \in 1 .. 6
      OBVIOUS
    <3> QED BY <3>1, <3>2
  <2> QED BY <2>1, <2>2, <2>3
<1> QED BY <1>1, <1>2, StoppingStage

(* The manager goes, and the session is still to be removed.               *)
LEMMA ResetStage ==
    ASSUME StageInv, Reset
    PROVE  StageInv'
<1>1. /\ Doing(<<"reset">>) /\ todo' = Tail(todo) /\ shared' = FALSE
      /\ UNCHANGED <<threads_initialized, static, contexts, phase>>
  BY DEF Reset
<1>2. PICK c \in Connections : Stopping(c, 7)
  BY <1>1, StageOfStep
<1>3. Kept' = Kept /\ Kept = {c} /\ contexts' = {}
  BY <1>1, <1>2 DEF Kept, Stopping
<1>4. todo' = From(Ends(c), 3)
  BY <1>1, <1>2, NextStages DEF Stopping
<1>5. Managed'
  BY <1>1, <1>2, <1>3 DEF Managed, Stopping
<1>6. Removing(c)'
  BY <1>3, <1>4, <1>5 DEF Removing
<1> QED BY <1>6 DEF StageInv

(* A disconnect stops the threads if it takes the last context.            *)
LEMMA DisconnectStage ==
    ASSUME StageInv, NEW c \in Connections, Disconnect(c)
    PROVE  StageInv'
<1>1. Ending(c, 2) /\ Kept' = Kept /\ contexts' = Kept \ {c}
  <2>1. Ending(c, 2)
    BY StageOfStep DEF Disconnect
  <2> QED BY <2>1 DEF Disconnect, Ending, Kept
<1>2. shared /\ threads_initialized /\ UNCHANGED shared /\ Tail(todo) = <<<<"remove", c>>>>
  <2>1. c \in contexts /\ Managed /\ todo = From(Ends(c), 2)
    BY <1>1 DEF Ending
  <2>2. Tail(todo) = From(Ends(c), 3)
    BY <2>1, NextStages
  <2> QED BY <2>1, <2>2, EndsHeads DEF Managed, Disconnect
<1>3. CASE contexts' = {}
  <2>1. /\ threads_initialized' = FALSE /\ static' = <<>>
        /\ HandOver("static", static, StopThreads \o <<<<"remove", c>>>>)
    BY <1>2, <1>3 DEF Disconnect
  <2>2. todo' = From(Stops(c), 1) \/ todo' = From(Stops(c), 2)
    BY <2>1, HandOverTodo, StopsHeads
  <2>3. Kept' = {c}
    BY <1>1, <1>3 DEF Ending
  <2>4. Stopping(c, 1)' \/ Stopping(c, 2)'
    BY <1>2, <1>3, <2>1, <2>2, <2>3 DEF Stopping
  <2> QED BY <2>4, 1 \in 1 .. 7, 2 \in 1 .. 7 DEF StageInv
<1>4. CASE contexts' # {}
  <2>1. todo' = From(Ends(c), 3) /\ UNCHANGED <<threads_initialized, static>>
    BY <1>2, <1>4, EndsHeads DEF Disconnect
  <2>2. Removing(c)'
    BY <1>1, <1>2, <1>4, <2>1 DEF Removing, Managed, Ending
  <2> QED BY <2>2 DEF StageInv
<1> QED BY <1>3, <1>4

(* The end of the oldest session, when all sessions are destroyed.         *)
LEMMA DestroyStage ==
    ASSUME SessionsInv', Managed', contexts' = Kept', todo' = Destroy(sessions_)'
    PROVE  StageInv'
<1>1. CASE sessions_' = <<>>
  <2>1. Resting'
    BY <1>1 DEF Resting, Destroy
  <2> QED BY <2>1 DEF StageInv
<1>2. CASE sessions_' # <<>>
  <2>1. PICK c \in Connections : c = Head(sessions_') /\ c \in ToSet(sessions_')
    <3>1. sessions_' \in Seq(Connections)
      BY DEF SessionsInv
    <3>2. Len(sessions_') \in Nat /\ Len(sessions_') # 0
      BY <1>2, <3>1, EmptySeq, LenProperties
    <3>3. 1 \in 1 .. Len(sessions_') /\ Head(sessions_') = sessions_'[1]
      BY <3>1, <3>2
    <3>4. Head(sessions_') \in ToSet(sessions_')
      BY <3>1, <3>3, InToSet
    <3>5. Head(sessions_') \in Connections
      BY <1>2, <3>1, HeadTailProperties
    <3> QED BY <3>4, <3>5
  <2>2. c \in Kept'
    BY <2>1 DEF SessionsInv
  <2>4. todo' = From(Ends(c), 2)
    BY <1>2, <2>1, EndsHeads DEF Destroy
  <2>5. Ending(c, 2)'
    BY <2>2, <2>4 DEF Ending
  <2> QED BY <2>1, <2>5, 2 \in 1 .. 2 DEF StageInv
<1> QED BY <1>1, <1>2

(* A session removed, and when the server stops the next one ends.         *)
LEMMA RemoveStage ==
    ASSUME SessionsInv, SessionsInv', StageInv, NEW c \in Connections, RemoveSession(c)
    PROVE  StageInv'
<1>1. Removing(c) /\ UNCHANGED <<threads_initialized, shared, static, contexts, stopped>>
  BY StageOfStep DEF RemoveSession, asyncVars
<1>2. Kept' = Kept \ {c}
  BY DEF RemoveSession, Kept, SessionsInv
<1>3. Managed' /\ contexts' = Kept'
  BY <1>1, <1>2 DEF Removing, Managed
<1>4. CASE stopped
  BY <1>3, <1>4, DestroyStage DEF RemoveSession
<1>5. CASE ~stopped
  <2>1. Resting'
    BY <1>1, <1>3, <1>5 DEF RemoveSession, Resting
  <2> QED BY <2>1 DEF StageInv
<1> QED BY <1>4, <1>5

(* A signal: the sessions end one after the other.                         *)
LEMMA StopStage ==
    ASSUME SessionsInv, SessionsInv', StageInv, Stop
    PROVE  StageInv'
<1>1. /\ Resting /\ todo' = Destroy(sessions_)
      /\ UNCHANGED <<threads_initialized, shared, static, contexts, sessions_, phase>>
  BY StageOfStep DEF Stop, asyncVars
<1>2. Managed' /\ contexts' = Kept'
  BY <1>1 DEF Resting, Managed, Kept
<1>3. todo' = Destroy(sessions_)'
  BY <1>1
<1> QED BY <1>2, <1>3, DestroyStage

(* Every step leads from a stage to a stage.                               *)
LEMMA StageStep == SessionsInv /\ StageInv /\ [Next]_vars => StageInv'
<1> SUFFICES ASSUME SessionsInv, StageInv, [Next]_vars PROVE StageInv'
  OBVIOUS
<1>1. SessionsInv'
  BY SessionsStep
<1>2. ASSUME NEW c \in Connections, Client(c) PROVE StageInv'
  <2>1. UNCHANGED <<todo, threads_initialized, shared, static, contexts, stopped, sessions_>>
    BY <1>2 DEF Client, ClientConnect, ClientCloses, ConnectionBreaks, asyncVars
  <2>2. Kept' = Kept
    BY <1>2 DEF Client, ClientConnect, ClientCloses, ConnectionBreaks, Kept, SessionsInv
  <2> QED BY <2>1, <2>2, StageSame
<1>3. ASSUME NEW c \in Connections, Handler(c) PROVE StageInv'
  BY <1>3, AcceptStage, ReadStage DEF Handler
<1>4. CASE Step
  BY <1>1, <1>4, NotifyStage, StopStages, ResetStage, StartStage, DisconnectStage, RemoveStage
  DEF Step
<1>5. CASE Stop
  BY <1>1, <1>5, StopStage
<1>6. ASSUME UNCHANGED <<asyncVars, todo, stopped, sessions_, phase>> PROVE StageInv'
  BY <1>6, StageSame DEF asyncVars, Kept
<1>7. ASSUME NEW w \in Workers, Worker(w) \/ Wakeup(w) PROVE StageInv'
  BY <1>6, <1>7 DEF Worker, Wakeup
<1>8. CASE UNCHANGED vars
  BY <1>6, <1>8 DEF vars, asyncVars
<1> QED BY <1>2, <1>3, <1>4, <1>5, <1>7, <1>8 DEF Next

-----------------------------------------------------------------------------
(***************************************************************************)
(*                    The threads and their queues                         *)
(***************************************************************************)

(* The steps left begin at or before the start, or the join, of thread i.  *)
BeingStarted(i) == \E k \in 1 .. i : todo = From(Starts, k)
BeingStopped(i) == \E c \in Connections, k \in 1 .. i + 3 : todo = From(Stops(c), k)

(***************************************************************************)
(* No thread leaves while there is a context, a thread that has left, or   *)
(* has been joined, leaves nothing in its queue, and threads are missing   *)
(* only before their start and there only before their join.               *)
(***************************************************************************)
ThreadsInv ==
    /\ should_terminate => ~threads_initialized
    /\ \A w \in Workers : wpc[w] = "exited" => should_terminate
    /\ \A w \in Workers : wpc[w] = "exited" => QueueOf(w) = <<>>
    /\ \A w \in Workers : ~threads_initialized /\ wpc[w] = "none" => QueueOf(w) = <<>>
    /\ \A i \in 1 .. 3 :
          threads_initialized /\ wpc[ThreadOrder[i]] = "none" => BeingStarted(i)
    /\ \A i \in 1 .. 3 :
          ~threads_initialized /\ wpc[ThreadOrder[i]] # "none" => BeingStopped(i)

(* Which steps can be next before the start, or the join, of a thread.     *)
LEMMA StartingHead ==
    ASSUME NEW i \in 1 .. 3, BeingStarted(i)
    PROVE  todo # <<>> /\ \E j \in 1 .. 3 : Head(todo) = <<"start", ThreadOrder[j]>>
<1>1. PICK k \in 1 .. i : todo = From(Starts, k)
  BY DEF BeingStarted
<1>2. k \in 1 .. 3
  OBVIOUS
<1> QED BY <1>1, <1>2, StartsHeads

(* While threads are being stopped: what the next step is.                 *)
LEMMA StoppingHead ==
    ASSUME NEW i \in 1 .. 3, BeingStopped(i)
    PROVE  /\ todo # <<>>
           /\ \/ Head(todo) \in {<<"notify">>, <<"terminate">>, <<"wake">>}
              \/ \E j \in 1 .. 3 : Head(todo) = <<"join", ThreadOrder[j]>>
<1>1. PICK c \in Connections, k \in 1 .. i + 3 : todo = From(Stops(c), k)
  BY DEF BeingStopped
<1>2. k \in 1 .. 8 /\ From(Stops(c), k) # <<>>
  <2>1. k \in 1 .. 8
    OBVIOUS
  <2> QED BY <2>1, StopsHeads
<1>3. CASE k = 1
  BY <1>1, <1>3, StopsHeads, <1>2
<1>4. CASE k = 2
  BY <1>1, <1>4, StopsHeads, <1>2
<1>5. CASE k = 3
  BY <1>1, <1>5, StopsHeads, <1>2
<1>6. CASE k > 3
  <2>1. k - 3 \in 1 .. 3 /\ k = (k - 3) + 3
    BY <1>6
  <2>2. Head(From(Stops(c), k)) = <<"join", ThreadOrder[k - 3]>>
    BY <2>1, StopsHeads
  <2> QED BY <1>1, <1>2, <2>1, <2>2
<1> QED BY <1>2, <1>3, <1>4, <1>5, <1>6

(* A step that is not the start, or the join, of thread i leaves those     *)
(* before it.                                                              *)
LEMMA StepsLeft ==
    ASSUME NEW i \in 1 .. 3, todo' = Tail(todo)
    PROVE  /\ BeingStarted(i) /\ ~Doing(<<"start", ThreadOrder[i]>>) => BeingStarted(i)'
           /\ BeingStopped(i) /\ ~Doing(<<"join", ThreadOrder[i]>>) => BeingStopped(i)'
<1>1. ASSUME BeingStarted(i), ~Doing(<<"start", ThreadOrder[i]>>) PROVE BeingStarted(i)'
  <2>1. PICK k \in 1 .. i : todo = From(Starts, k)
    BY <1>1 DEF BeingStarted
  <2>2. k \in 1 .. 3
    OBVIOUS
  <2>3. k # i
    BY <1>1, <2>1, <2>2, StartsHeads DEF Doing
  <2>4. k \in 1 .. 2 /\ k + 1 \in 1 .. i
    BY <2>3
  <2>5. todo' = From(Starts, k + 1)
    BY <2>1, <2>4, NextStages
  <2> QED BY <2>4, <2>5 DEF BeingStarted
<1>2. ASSUME BeingStopped(i), ~Doing(<<"join", ThreadOrder[i]>>) PROVE BeingStopped(i)'
  <2>1. PICK c \in Connections, k \in 1 .. i + 3 : todo = From(Stops(c), k)
    BY <1>2 DEF BeingStopped
  <2>2. i + 3 \in 1 .. 8 /\ From(Stops(c), i + 3) # <<>>
    <3>1. i + 3 \in 1 .. 8
      OBVIOUS
    <3> QED BY <3>1, StopsHeads
  <2>3. Head(From(Stops(c), i + 3)) = <<"join", ThreadOrder[i]>>
    BY StopsHeads
  <2>4. k # i + 3
    BY <1>2, <2>1, <2>2, <2>3 DEF Doing
  <2>5. k \in 1 .. 6 /\ k + 1 \in 1 .. i + 3
    BY <2>4
  <2>6. todo' = From(Stops(c), k + 1)
    BY <2>1, <2>5, NextStages
  <2> QED BY <2>5, <2>6 DEF BeingStopped
<1> QED BY <1>1, <1>2

(* Which worker an order position is, and the reverse.                     *)
LEMMA OrderIs ==
    /\ \A i \in 1 .. 3 : ThreadOrder[i] \in Workers
    /\ \A w \in Workers : \E i \in 1 .. 3 : w = ThreadOrder[i]
    /\ \A i, j \in 1 .. 3 : ThreadOrder[i] = ThreadOrder[j] => i = j
<1>1. Len(ThreadOrder) = 3
  BY DEF ThreadOrder
<1>2. \A i \in 1 .. 3 : ThreadOrder[i] \in Workers
  <2> DEFINE t == ThreadOrder
  <2>1. t \in Seq(Workers) /\ Len(t) = 3
    BY <1>1, ThreadOrderType
  <2> HIDE DEF t
  <2>2. \A i \in 1 .. 3 : t[i] \in Workers
    BY <2>1, ElementOfSeq
  <2> QED BY <2>2 DEF t
<1> QED BY <1>1, <1>2, ThreadOrderIs

(* No thread runs at first.                                                *)
LEMMA ThreadsInit == Init => ThreadsInv
<1> SUFFICES ASSUME Init PROVE ThreadsInv
  OBVIOUS
<1>1. /\ ~should_terminate /\ ~threads_initialized /\ log_queue = <<>> /\ file_queue = <<>>
      /\ \A w \in Workers : wpc[w] = "none"
  BY DEF Init, WorkersInit
<1> QED BY <1>1, OrderIs DEF ThreadsInv, QueueOf

(* A step of the workers among themselves.                                 *)
LEMMA ThreadsMove ==
    ASSUME ThreadsInv, UNCHANGED <<threads_initialized, todo, should_terminate>>,
           \A w \in Workers : wpc'[w] = "none" <=> wpc[w] = "none",
           \A w \in Workers : wpc'[w] = "exited" =>
              wpc[w] = "exited" \/ (should_terminate /\ QueueOf(w) = <<>>),
           \A w \in Workers : QueueOf(w) = <<>> => QueueOf(w)' = <<>>
    PROVE  ThreadsInv'
<1>1. \A i \in 1 .. 3 : (BeingStarted(i) => BeingStarted(i)') /\ (BeingStopped(i) => BeingStopped(i)')
  BY DEF BeingStarted, BeingStopped
<1>2. \A w \in Workers : wpc'[w] = "exited" => should_terminate /\ QueueOf(w)' = <<>>
  BY DEF ThreadsInv
<1>3. \A w \in Workers : ~threads_initialized' /\ wpc'[w] = "none" => QueueOf(w)' = <<>>
  BY DEF ThreadsInv
<1>4. \A i \in 1 .. 3 : threads_initialized' /\ wpc'[ThreadOrder[i]] = "none" => BeingStarted(i)'
  BY <1>1, OrderIs DEF ThreadsInv
<1>5. \A i \in 1 .. 3 : ~threads_initialized' /\ wpc'[ThreadOrder[i]] # "none" => BeingStopped(i)'
  BY <1>1, OrderIs DEF ThreadsInv
<1> QED BY <1>2, <1>3, <1>4, <1>5 DEF ThreadsInv

(* A thread that leaves its loop has been told to and has emptied its      *)
(* queue.                                                                  *)
LEMMA WorkerThreads ==
    ASSUME TypesOK, ThreadsInv, NEW w \in Workers, Worker(w) \/ Wakeup(w)
    PROVE  ThreadsInv'
<1>1. UNCHANGED <<threads_initialized, todo, should_terminate>> /\ (WorkerStep(w) \/ SpuriousWakeup(w))
  BY DEF Worker, Wakeup, asyncVars, WorkerStep, LeaveLoop, DecideToSleep, FallAsleep, Take,
         WriteLog, WriteFile, SpuriousWakeup
<1>2. wpc \in [Workers -> WorkerState]
  BY DEF TypesOK, WorkersTypeOK
<1>3. /\ wpc[w] \notin {"none", "exited"}
      /\ \E state \in {"running", "holding", "asleep", "writing", "exited"} :
            /\ wpc' = [wpc EXCEPT ![w] = state]
            /\ state = "exited" => should_terminate /\ QueueOf(w) = <<>>
  <2>1. CASE LeaveLoop(w)
    BY <2>1 DEF LeaveLoop
  <2>2. CASE DecideToSleep(w) \/ FallAsleep(w) \/ SpuriousWakeup(w)
    BY <2>2 DEF DecideToSleep, FallAsleep, SpuriousWakeup
  <2>3. CASE Take(w)
    BY <2>3 DEF Take
  <2>4. CASE WriteLog(w) \/ WriteFile(w)
    BY <2>4 DEF WriteLog, WriteFile
  <2> QED BY <1>1, <2>1, <2>2, <2>3, <2>4 DEF WorkerStep
<1>4. \A v \in Workers : wpc'[v] = "none" <=> wpc[v] = "none"
  BY <1>2, <1>3
<1>5. \A v \in Workers : wpc'[v] = "exited" =>
          wpc[v] = "exited" \/ (should_terminate /\ QueueOf(v) = <<>>)
  BY <1>2, <1>3
<1>6. \A v \in Workers : QueueOf(v) = <<>> => QueueOf(v)' = <<>>
  <2>1. CASE Take(w)
    BY <2>1 DEF Take, QueueOf
  <2>2. CASE LeaveLoop(w) \/ DecideToSleep(w) \/ FallAsleep(w) \/ SpuriousWakeup(w)
    BY <2>2 DEF LeaveLoop, DecideToSleep, FallAsleep, SpuriousWakeup, QueueOf, queues
  <2>3. CASE WriteLog(w) \/ WriteFile(w)
    BY <2>3 DEF WriteLog, WriteFile, QueueOf, queues
  <2> QED BY <1>1, <2>1, <2>2, <2>3 DEF WorkerStep
<1> QED BY <1>1, <1>4, <1>5, <1>6, ThreadsMove

(* A step of a handler that neither starts, stops nor joins a thread.      *)
LEMMA ThreadsWait ==
    ASSUME ThreadsInv, todo' = Tail(todo),
           UNCHANGED <<threads_initialized, should_terminate, queues>>,
           \A w \in Workers : /\ wpc'[w] = "none" <=> wpc[w] = "none"
                              /\ wpc'[w] = "exited" <=> wpc[w] = "exited",
           \A i \in 1 .. 3 : /\ ~Doing(<<"start", ThreadOrder[i]>>)
                             /\ ~Doing(<<"join", ThreadOrder[i]>>)
    PROVE  ThreadsInv'
<1>1. \A i \in 1 .. 3 : (BeingStarted(i) => BeingStarted(i)') /\ (BeingStopped(i) => BeingStopped(i)')
  BY StepsLeft
<1>2. \A w \in Workers : QueueOf(w)' = QueueOf(w)
  BY DEF QueueOf, queues
<1>4. \A i \in 1 .. 3 : threads_initialized' /\ wpc'[ThreadOrder[i]] = "none" => BeingStarted(i)'
  BY <1>1, OrderIs DEF ThreadsInv
<1>5. \A i \in 1 .. 3 : ~threads_initialized' /\ wpc'[ThreadOrder[i]] # "none" => BeingStopped(i)'
  BY <1>1, OrderIs DEF ThreadsInv
<1> QED BY <1>2, <1>4, <1>5 DEF ThreadsInv

(* The first connection: all threads are to be started.                    *)
LEMMA AcceptThreads ==
    ASSUME StageInv, ThreadsInv, NEW c \in Connections, Accept(c)
    PROVE  ThreadsInv'
<1>1. todo = <<>>
  BY DEF Accept
<1>2. \A i \in 1 .. 3 : ~BeingStarted(i) /\ ~BeingStopped(i)
  BY <1>1, StartingHead, StoppingHead
<1>3. CASE UNCHANGED <<workerVars, threads_initialized, todo>>
  <2>1. UNCHANGED <<threads_initialized, todo, should_terminate, wpc, log_queue, file_queue>>
    BY <1>3 DEF workerVars
  <2> QED BY <2>1, ThreadsMove DEF QueueOf, ThreadsInv
<1>4. CASE /\ ~threads_initialized /\ threads_initialized' = TRUE
           /\ SetTerminate(FALSE) /\ todo' = Steps("start", ThreadOrder)
  <2>1. \A w \in Workers : wpc[w] = "none"
    BY <1>2, <1>4, OrderIs DEF ThreadsInv
  <2>2. /\ should_terminate' = FALSE /\ threads_initialized' = TRUE
        /\ \A w \in Workers : wpc'[w] = "none"
    BY <1>4, <2>1 DEF SetTerminate
  <2>3. \A i \in 1 .. 3 : BeingStarted(i)'
    <3>1. todo' = From(Starts, 1)
      BY <1>4, StartsHeads
    <3>2. \A i \in 1 .. 3 : 1 \in 1 .. i
      OBVIOUS
    <3> QED BY <3>1, <3>2 DEF BeingStarted
  <2> QED BY <2>2, <2>3 DEF ThreadsInv
<1> QED BY <1>3, <1>4 DEF Accept

(* What a handler pushes does not move the threads.                        *)
LEMMA HandOverWorkers ==
    ASSUME NEW kind, NEW commands, NEW rest, HandOver(kind, commands, rest)
    PROVE  UNCHANGED <<wpc, should_terminate>>
BY DEF HandOver, Submit, workerVars

(* What process_command does to the threads and their queues.              *)
LEMMA ProcessWorkers ==
    ASSUME NEW c, NEW text, NEW rest, process_command(c, text, rest)
    PROVE  UNCHANGED <<wpc, should_terminate, threads_initialized>>
BY HandOverWorkers DEF process_command, OpenBrace, CloseBrace, Command, workerVars

(* All threads are there and none of them leaves.                          *)
LEMMA ThreadsWork ==
    ASSUME ThreadsInv, threads_initialized, \A i \in 1 .. 3 : ~BeingStarted(i)
    PROVE  ~should_terminate /\ \A w \in Workers : wpc[w] \notin {"none", "exited"}
BY OrderIs DEF ThreadsInv

(* A handler of async_read_until leaves the threads where they are.        *)
LEMMA ReadThreads ==
    ASSUME StageInv, ThreadsInv, NEW c \in Connections,
           HandleLine(c) \/ HandleEof(c) \/ HandleError(c)
    PROVE  ThreadsInv'
<1>1. todo = <<>> /\ Resting /\ c \in Kept
  BY StageOfStep DEF HandleLine, HandleEof, HandleError, Reading, Kept
<1>2. threads_initialized
  BY <1>1 DEF Resting, Managed
<1>3. ~should_terminate /\ \A w \in Workers : wpc[w] \notin {"none", "exited"}
  BY <1>1, <1>2, ThreadsWork, StartingHead
<1>4. UNCHANGED <<wpc, should_terminate, threads_initialized>>
  BY ProcessWorkers DEF HandleLine, HandleEof, HandleError, workerVars, asyncVars
<1> QED BY <1>2, <1>3, <1>4, OrderIs DEF ThreadsInv

(* The last disconnect: all threads are to be stopped.                     *)
LEMMA DisconnectThreads ==
    ASSUME StageInv, ThreadsInv, NEW c \in Connections, Disconnect(c)
    PROVE  ThreadsInv'
<1>1. Ending(c, 2) /\ todo # <<>> /\ Head(todo) = <<"disconnect", c>>
  BY StageOfStep DEF Disconnect, Doing
<1>2. threads_initialized
  BY <1>1 DEF Ending, Managed
<1>3. \A i \in 1 .. 3 : ~BeingStarted(i)
  <2>1. \A w : <<"disconnect", c>> # <<"start", w>>
    OBVIOUS
  <2> QED BY <1>1, <2>1, StartingHead
<1>4. ~should_terminate /\ \A w \in Workers : wpc[w] \notin {"none", "exited"}
  BY <1>2, <1>3, ThreadsWork
<1>5. CASE contexts' = {}
  <2>1. /\ threads_initialized' = FALSE
        /\ HandOver("static", static, StopThreads \o Tail(todo))
    BY <1>2, <1>5 DEF Disconnect
  <2>2. UNCHANGED <<wpc, should_terminate>>
    BY <2>1, HandOverWorkers
  <2>3. \A i \in 1 .. 3 : BeingStopped(i)'
    <3>1. todo = From(Ends(c), 2)
      BY <1>1 DEF Ending
    <3>2. Tail(todo) = <<<<"remove", c>>>>
      BY <3>1, NextStages, EndsHeads
    <3>3. todo' = From(Stops(c), 1) \/ todo' = From(Stops(c), 2)
      BY <2>1, <3>2, HandOverTodo, StopsHeads
    <3>4. \A i \in 1 .. 3 : 1 \in 1 .. i + 3 /\ 2 \in 1 .. i + 3
      OBVIOUS
    <3> QED BY <3>3, <3>4 DEF BeingStopped
  <2> QED BY <1>4, <2>1, <2>2, <2>3, OrderIs DEF ThreadsInv
<1>6. CASE contexts' # {}
  <2>1. UNCHANGED <<threads_initialized, wpc, should_terminate>>
    BY <1>6 DEF Disconnect, workerVars
  <2> QED BY <1>2, <1>4, <2>1, OrderIs DEF ThreadsInv
<1> QED BY <1>5, <1>6

(* Nothing moves, and no thread is being started or stopped.               *)
LEMMA ThreadsSame ==
    ASSUME ThreadsInv, UNCHANGED <<workerVars, threads_initialized>>,
           \/ UNCHANGED todo
           \/ \A i \in 1 .. 3 : ~BeingStarted(i) /\ ~BeingStopped(i)
    PROVE  ThreadsInv'
<1>1. UNCHANGED <<should_terminate, wpc, log_queue, file_queue, threads_initialized>>
  BY DEF workerVars
<1>2. \A i \in 1 .. 3 : (BeingStarted(i) => BeingStarted(i)') /\ (BeingStopped(i) => BeingStopped(i)')
  BY DEF BeingStarted, BeingStopped
<1> QED BY <1>1, <1>2 DEF ThreadsInv, QueueOf

(* The end of a session is nothing to the threads.                         *)
LEMMA RemoveThreads ==
    ASSUME ThreadsInv, NEW c \in Connections, RemoveSession(c)
    PROVE  ThreadsInv'
<1>1. todo # <<>> /\ Head(todo) = <<"remove", c>>
  BY DEF RemoveSession, Doing
<1>2. \A i \in 1 .. 3 : ~BeingStarted(i) /\ ~BeingStopped(i)
  <2>1. /\ \A w : <<"remove", c>> # <<"start", w>> /\ <<"remove", c>> # <<"join", w>>
        /\ <<"remove", c>> \notin {<<"notify">>, <<"terminate">>, <<"wake">>}
    OBVIOUS
  <2> QED BY <1>1, <2>1, StartingHead, StoppingHead
<1> QED BY <1>2, ThreadsSame DEF RemoveSession, asyncVars

(* A notification, and the flag that ends the threads.                     *)
LEMMA NotifyThreads ==
    ASSUME TypesOK, StageInv, ThreadsInv, Notify \/ Wake \/ Terminate \/ Reset
    PROVE  ThreadsInv'
<1>1. /\ UNCHANGED <<threads_initialized, queues>> /\ todo' = Tail(todo)
      /\ wpc' = WakeAll \/ wpc' = wpc
  BY DEF Notify, Wake, Terminate, Reset, asyncVars, NotifyAll, NotifyStop, SetTerminate,
         workerVars, queues
<1>2. \A w \in Workers : /\ wpc'[w] = "none" <=> wpc[w] = "none"
                         /\ wpc'[w] = "exited" <=> wpc[w] = "exited"
  BY <1>1, WakeAllSame
<1>3. \A w : ~Doing(<<"start", w>>) /\ ~Doing(<<"join", w>>)
  <2>1. \A w : /\ <<"notify">> # <<"start", w>> /\ <<"notify">> # <<"join", w>>
               /\ <<"wake">> # <<"start", w>> /\ <<"wake">> # <<"join", w>>
    OBVIOUS
  <2>2. \A w : /\ <<"terminate">> # <<"start", w>> /\ <<"terminate">> # <<"join", w>>
               /\ <<"reset">> # <<"start", w>> /\ <<"reset">> # <<"join", w>>
    OBVIOUS
  <2> QED BY <2>1, <2>2 DEF Notify, Wake, Terminate, Reset, Doing
<1>4. CASE Notify \/ Wake \/ Reset
  <2>1. UNCHANGED should_terminate
    BY <1>4 DEF Notify, Wake, Reset, NotifyAll, NotifyStop, workerVars
  <2> QED BY <1>1, <1>2, <1>3, <2>1, ThreadsWait
<1>5. CASE Terminate
  <2>1. should_terminate' = TRUE /\ ~threads_initialized
    BY <1>5, StageOfStep DEF Terminate, SetTerminate, Stopping
  <2>2. \A i \in 1 .. 3 : BeingStopped(i) => BeingStopped(i)'
    BY <1>1, <1>3, StepsLeft
  <2>3. \A w \in Workers : QueueOf(w)' = QueueOf(w)
    BY <1>1 DEF QueueOf, queues
  <2> QED BY <1>1, <1>2, <2>1, <2>2, <2>3, OrderIs DEF ThreadsInv
<1> QED BY <1>4, <1>5

(* A thread that has been started is none of those that wait to be.        *)
LEMMA StartThreads ==
    ASSUME TypesOK, StageInv, ThreadsInv, NEW w \in Workers, Start(w)
    PROVE  ThreadsInv'
<1>1. threads_initialized
  BY StageOfStep DEF Start, Starting, Managed
<1>2. /\ Doing(<<"start", w>>) /\ todo' = Tail(todo)
      /\ UNCHANGED <<threads_initialized, should_terminate, queues>>
      /\ wpc' = [wpc EXCEPT ![w] = "running"] /\ wpc \in [Workers -> WorkerState]
  BY DEF Start, StartThread, asyncVars, TypesOK, WorkersTypeOK
<1>3. \A v \in Workers : /\ v # w => wpc'[v] = wpc[v]
                         /\ wpc'[w] = "running"
                         /\ QueueOf(v)' = QueueOf(v)
  BY <1>2 DEF QueueOf, queues
<1>4. ASSUME NEW i \in 1 .. 3, wpc'[ThreadOrder[i]] = "none" PROVE BeingStarted(i)'
  <2>1. ThreadOrder[i] # w /\ wpc[ThreadOrder[i]] = "none"
    BY <1>3, <1>4, OrderIs
  <2>2. BeingStarted(i)
    BY <1>1, <2>1 DEF ThreadsInv
  <2>3. ~Doing(<<"start", ThreadOrder[i]>>)
    BY <1>2, <2>1 DEF Doing
  <2> QED BY <1>2, <2>2, <2>3, StepsLeft
<1> QED BY <1>1, <1>2, <1>3, <1>4 DEF ThreadsInv

(* A thread that has been joined is none of those that wait to be.         *)
LEMMA JoinThreads ==
    ASSUME TypesOK, StageInv, ThreadsInv, NEW w \in Workers, JoinNext(w)
    PROVE  ThreadsInv'
<1>1. ~threads_initialized
  BY StageOfStep DEF JoinNext, Stopping
<1>2. /\ Doing(<<"join", w>>) /\ todo' = Tail(todo) /\ wpc[w] \in {"none", "exited"}
      /\ UNCHANGED <<threads_initialized, should_terminate, queues>>
      /\ wpc' = [wpc EXCEPT ![w] = "none"] /\ wpc \in [Workers -> WorkerState]
  BY DEF JoinNext, Join, asyncVars, TypesOK, WorkersTypeOK
<1>3. \A v \in Workers : /\ v # w => wpc'[v] = wpc[v]
                         /\ wpc'[w] = "none"
                         /\ QueueOf(v)' = QueueOf(v)
  BY <1>2 DEF QueueOf, queues
<1>4. ASSUME NEW i \in 1 .. 3, wpc'[ThreadOrder[i]] # "none" PROVE BeingStopped(i)'
  <2>1. ThreadOrder[i] # w /\ wpc[ThreadOrder[i]] # "none"
    BY <1>3, <1>4, OrderIs
  <2>2. BeingStopped(i)
    BY <1>1, <2>1 DEF ThreadsInv
  <2>3. ~Doing(<<"join", ThreadOrder[i]>>)
    BY <1>2, <2>1 DEF Doing
  <2> QED BY <1>2, <2>2, <2>3, StepsLeft
<1>5. QueueOf(w) = <<>>
  BY <1>1, <1>2 DEF ThreadsInv
<1> QED BY <1>1, <1>2, <1>3, <1>4, <1>5 DEF ThreadsInv

(* Every step keeps what is said of the threads.                           *)
LEMMA ThreadsStep == TypesOK /\ StageInv /\ ThreadsInv /\ [Next]_vars => ThreadsInv'
<1> SUFFICES ASSUME TypesOK, StageInv, ThreadsInv, [Next]_vars PROVE ThreadsInv'
  OBVIOUS
<1>1. ASSUME NEW c \in Connections, Client(c) PROVE ThreadsInv'
  <2>1. UNCHANGED <<workerVars, threads_initialized, todo>>
    BY <1>1 DEF Client, ClientConnect, ClientCloses, ConnectionBreaks, asyncVars
  <2> QED BY <2>1, ThreadsSame
<1>2. CASE Step
  BY <1>2, NotifyThreads, StartThreads, JoinThreads, DisconnectThreads, RemoveThreads DEF Step
<1>3. CASE Stop
  <2>1. UNCHANGED <<workerVars, threads_initialized>> /\ todo = <<>>
    BY <1>3 DEF Stop, asyncVars
  <2> QED BY <2>1, ThreadsSame, StartingHead, StoppingHead
<1>4. CASE UNCHANGED vars
  <2>1. UNCHANGED <<workerVars, threads_initialized, todo>>
    BY <1>4 DEF vars, workerVars
  <2> QED BY <2>1, ThreadsSame
<1> QED BY <1>1, <1>2, <1>3, <1>4, AcceptThreads, ReadThreads, WorkerThreads DEF Next, Handler

(* Sessions, stages and threads together are an invariant.                 *)
LEMMA HandlersInvariant == Spec => [](TypesOK /\ SessionsInv /\ StageInv /\ ThreadsInv)
<1>1. Spec => []TypesOK
  BY ServerUsesWorkers, TypesInvariant, PTL
<1> QED BY <1>1, SessionsInit, StageInit, ThreadsInit, SessionsStep, StageStep, ThreadsStep, PTL
    DEF Spec

(***************************************************************************)
(* When the last session has gone and the handler has ended, everything    *)
(* has been written: disconnect hands over the static block before it      *)
(* stops the threads, each thread empties its queue before it leaves, and  *)
(* each is joined.                                                         *)
(***************************************************************************)
THEOREM NothingLeftBehind == Spec => []EmptyServerHasWritten
<1>1. SessionsInv /\ StageInv /\ ThreadsInv => EmptyServerHasWritten
  <2> SUFFICES ASSUME SessionsInv, StageInv, ThreadsInv, sessions_ = <<>>, todo = <<>>
               PROVE  /\ log_queue = <<>> /\ file_queue = <<>> /\ static = <<>>
                      /\ \A w \in Workers : wpc[w] = "none"
    BY DEF EmptyServerHasWritten
  <2>1. Kept = {}
    <3>1. Len(sessions_) = 0 /\ \A i \in 1 .. Len(sessions_) : FALSE
      OBVIOUS
    <3>2. sessions_ \in Seq(Connections) /\ ToSet(sessions_) = Kept
      BY DEF SessionsInv
    <3>3. \A x : x \notin ToSet(sessions_)
      BY <3>1, <3>2, InToSet
    <3> QED BY <3>2, <3>3
  <2>2. ~threads_initialized /\ static = <<>>
    BY <2>1, StageOfStep DEF Resting, Managed
  <2>3. \A i \in 1 .. 3 : ~BeingStopped(i)
    BY StoppingHead
  <2>4. \A w \in Workers : wpc[w] = "none"
    BY <2>2, <2>3, OrderIs DEF ThreadsInv
  <2>5. \A w \in Workers : QueueOf(w) = <<>>
    BY <2>2, <2>4 DEF ThreadsInv
  <2>6. log_queue = <<>> /\ file_queue = <<>>
    BY <2>5 DEF QueueOf, Workers
  <2> QED BY <2>2, <2>4, <2>6
<1> QED BY <1>1, HandlersInvariant, PTL

-----------------------------------------------------------------------------
(***************************************************************************)
(*                     What a history says of its lines                    *)
(***************************************************************************)

(* The definitions of the properties, for any history h of handled lines.  *)
LinesIn(h, c, n)      == {i \in 1 .. n : h[i].conn = c}
TextIn(h, c, n, text) == {i \in LinesIn(h, c, n) : h[i].text = text}
LevelIn(h, c, n) ==
    Cardinality(TextIn(h, c, n, LeftBrace)) - Cardinality(TextIn(h, c, n, RightBrace))
LevelAt(h, i)   == LevelIn(h, h[i].conn, i)
CommandAt(h, i) == h[i].text \notin {LeftBrace, RightBrace}
EnclosedIn(h, c, n) ==
    {j \in LinesIn(h, c, n) :
        CommandAt(h, j) /\ \A k \in LinesIn(h, c, n) : LevelAt(h, k) <= 0 => k < j}

(* The properties speak of the history handled.                            *)
LEMMA OfHistory ==
    /\ \A c, n : LinesOf(c, n) = LinesIn(handled, c, n)
    /\ \A c, n : LevelAfter(c, n) = LevelIn(handled, c, n)
    /\ \A i : Level(i) = LevelAt(handled, i)
    /\ \A i : IsCommand(i) <=> CommandAt(handled, i)
    /\ \A c, n : Enclosed(c, n) = EnclosedIn(handled, c, n)
<1>1. \A c, n : LinesOf(c, n) = LinesIn(handled, c, n)
  BY DEF LinesOf, LinesIn
<1>2. \A c, n, text : WithText(c, n, text) = TextIn(handled, c, n, text)
  BY <1>1 DEF WithText, TextIn, LinesIn
<1>3. \A c, n : LevelAfter(c, n) = LevelIn(handled, c, n)
  BY <1>2 DEF LevelAfter, LevelIn
<1>4. \A i : Level(i) = LevelAt(handled, i)
  BY <1>3 DEF Level, LevelAt
<1>5. \A i : IsCommand(i) <=> CommandAt(handled, i)
  BY DEF IsCommand, CommandAt
<1>6. \A c, n : Enclosed(c, n) = EnclosedIn(handled, c, n)
  BY <1>1, <1>4, <1>5 DEF Enclosed, EnclosedIn
<1> QED BY <1>1, <1>3, <1>4, <1>5, <1>6

(* The same of the history after a step.                                   *)
LEMMA OfNextHistory ==
    /\ \A c, n : LinesOf(c, n)' = LinesIn(handled', c, n)
    /\ \A c, n : LevelAfter(c, n)' = LevelIn(handled', c, n)
    /\ \A i : Level(i)' = LevelAt(handled', i)
    /\ \A i : IsCommand(i)' <=> CommandAt(handled', i)
    /\ \A c, n : Enclosed(c, n)' = EnclosedIn(handled', c, n)
<1>1. \A c, n : LinesOf(c, n)' = LinesIn(handled', c, n)
  BY DEF LinesOf, LinesIn
<1>2. \A c, n, text : WithText(c, n, text)' = TextIn(handled', c, n, text)
  BY <1>1 DEF WithText, TextIn, LinesIn
<1>3. \A c, n : LevelAfter(c, n)' = LevelIn(handled', c, n)
  BY <1>2 DEF LevelAfter, LevelIn
<1>4. \A i : Level(i)' = LevelAt(handled', i)
  BY <1>3 DEF Level, LevelAt
<1>5. \A i : IsCommand(i)' <=> CommandAt(handled', i)
  BY DEF IsCommand, CommandAt
<1>6. \A c, n : Enclosed(c, n)' = EnclosedIn(handled', c, n)
  BY <1>1, <1>4, <1>5 DEF Enclosed, EnclosedIn
<1> QED BY <1>1, <1>3, <1>4, <1>5, <1>6

(* Levels are integers.                                                    *)
LEMMA LevelType ==
    ASSUME NEW h, NEW c, NEW n \in Nat
    PROVE  /\ LevelIn(h, c, n) \in Int
           /\ \A text : IsFiniteSet(TextIn(h, c, n, text))
<1>1. IsFiniteSet(1 .. n)
  BY FS_Interval
<1>2. ASSUME NEW text
      PROVE  IsFiniteSet(TextIn(h, c, n, text)) /\ Cardinality(TextIn(h, c, n, text)) \in Nat
  <2>1. TextIn(h, c, n, text) \subseteq 1 .. n
    BY DEF TextIn, LinesIn
  <2>2. IsFiniteSet(TextIn(h, c, n, text))
    BY <1>1, <2>1, FS_Subset
  <2> QED BY <2>2, FS_CardinalityType
<1> QED BY <1>2 DEF LevelIn

(* A history that agrees with another on its first n lines says the same   *)
(* of them.                                                                *)
LEMMA SamePrefix ==
    ASSUME NEW h, NEW g, NEW n \in Nat, \A i \in 1 .. n : g[i] = h[i]
    PROVE  /\ \A c : \A m \in 0 .. n : LinesIn(g, c, m) = LinesIn(h, c, m)
           /\ \A c : \A m \in 0 .. n : LevelIn(g, c, m) = LevelIn(h, c, m)
           /\ \A i \in 1 .. n : LevelAt(g, i) = LevelAt(h, i)
           /\ \A i \in 1 .. n : CommandAt(g, i) <=> CommandAt(h, i)
           /\ \A c : \A m \in 0 .. n : EnclosedIn(g, c, m) = EnclosedIn(h, c, m)
<1>1. \A m \in 0 .. n : \A i \in 1 .. m : i \in 1 .. n
  OBVIOUS
<1>2. \A c : \A m \in 0 .. n : LinesIn(g, c, m) = LinesIn(h, c, m)
  BY <1>1 DEF LinesIn
<1>3. \A c : \A m \in 0 .. n : \A i \in LinesIn(h, c, m) : i \in 1 .. n
  BY <1>1 DEF LinesIn
<1>4. \A c, text : \A m \in 0 .. n : TextIn(g, c, m, text) = TextIn(h, c, m, text)
  BY <1>2, <1>3 DEF TextIn
<1>5. \A c : \A m \in 0 .. n : LevelIn(g, c, m) = LevelIn(h, c, m)
  BY <1>4 DEF LevelIn
<1>6. \A i \in 1 .. n : LevelAt(g, i) = LevelAt(h, i)
  <2>1. \A i \in 1 .. n : i \in 0 .. n
    OBVIOUS
  <2> QED BY <1>5, <2>1 DEF LevelAt
<1>7. \A i \in 1 .. n : CommandAt(g, i) <=> CommandAt(h, i)
  BY DEF CommandAt
<1>8. \A c : \A m \in 0 .. n : EnclosedIn(g, c, m) = EnclosedIn(h, c, m)
  BY <1>2, <1>3, <1>6, <1>7 DEF EnclosedIn
<1> QED BY <1>2, <1>5, <1>6, <1>7, <1>8

(* One line more.                                                          *)
Longer(h, g, n, c, text) ==
    /\ \A i \in 1 .. n : g[i] = h[i]
    /\ g[n + 1].conn = c /\ g[n + 1].text = text

(* The line more is one of its connection.                                 *)
LEMMA LongerLines ==
    ASSUME NEW h, NEW g, NEW n \in Nat, NEW c, NEW text, Longer(h, g, n, c, text)
    PROVE  /\ LinesIn(g, c, n + 1) = LinesIn(h, c, n) \cup {n + 1}
           /\ \A d : d # c => LinesIn(g, d, n + 1) = LinesIn(h, d, n)
           /\ \A d : n + 1 \notin LinesIn(h, d, n)
           /\ \A d : \A i \in LinesIn(h, d, n) : i \in 1 .. n
<1>1. 1 .. n + 1 = (1 .. n) \cup {n + 1} /\ n + 1 \notin 1 .. n
  OBVIOUS
<1> QED BY <1>1 DEF LinesIn, Longer

(* The level it makes.                                                     *)
LEMMA LongerLevel ==
    ASSUME NEW h, NEW g, NEW n \in Nat, NEW c, NEW text, Longer(h, g, n, c, text)
    PROVE  /\ \A d : d # c => LevelIn(g, d, n + 1) = LevelIn(h, d, n)
           /\ text = LeftBrace => LevelIn(g, c, n + 1) = LevelIn(h, c, n) + 1
           /\ text = RightBrace => LevelIn(g, c, n + 1) = LevelIn(h, c, n) - 1
           /\ text \notin {LeftBrace, RightBrace} => LevelIn(g, c, n + 1) = LevelIn(h, c, n)
<1> DEFINE p == n + 1
<1>0. /\ LinesIn(g, c, p) = LinesIn(h, c, n) \cup {p}
      /\ \A d : d # c => LinesIn(g, d, p) = LinesIn(h, d, n)
      /\ \A d : p \notin LinesIn(h, d, n)
      /\ \A d : \A i \in LinesIn(h, d, n) : i \in 1 .. n /\ g[i] = h[i]
  <2>1. \A i \in 1 .. n : g[i] = h[i]
    BY DEF Longer
  <2>2. /\ LinesIn(g, c, n + 1) = LinesIn(h, c, n) \cup {n + 1}
        /\ \A d : d # c => LinesIn(g, d, n + 1) = LinesIn(h, d, n)
        /\ \A d : n + 1 \notin LinesIn(h, d, n)
        /\ \A d : \A i \in LinesIn(h, d, n) : i \in 1 .. n
    BY LongerLines, Zenon
  <2> QED BY <2>1, <2>2
<1>p. /\ p \in Nat /\ g[p].conn = c /\ g[p].text = text
      /\ \A i \in 1 .. n : i < p /\ ~(p < i)
  BY DEF Longer
<1> HIDE DEF p
<1>2. \A d, t : d # c => TextIn(g, d, p, t) = TextIn(h, d, n, t)
  BY <1>0 DEF TextIn
<1>3. \A t : t # text => TextIn(g, c, p, t) = TextIn(h, c, n, t)
  BY <1>0, <1>p DEF TextIn
<1>4. TextIn(g, c, p, text) = TextIn(h, c, n, text) \cup {p}
  BY <1>0, <1>p DEF TextIn
<1>5. p \notin TextIn(h, c, n, text)
  BY <1>0 DEF TextIn
<1>6. Cardinality(TextIn(g, c, p, text)) = Cardinality(TextIn(h, c, n, text)) + 1
  <2>1. IsFiniteSet(TextIn(h, c, n, text))
    BY LevelType
  <2> QED BY <1>4, <1>5, <2>1, FS_AddElement
<1>7. \A t : Cardinality(TextIn(h, c, n, t)) \in Nat
  BY LevelType, FS_CardinalityType
<1>8. \A d : d # c => LevelIn(g, d, p) = LevelIn(h, d, n)
  BY <1>2 DEF LevelIn
<1>9. CASE text = LeftBrace
  <2>1. /\ TextIn(g, c, p, RightBrace) = TextIn(h, c, n, RightBrace)
        /\ Cardinality(TextIn(g, c, p, LeftBrace))
             = Cardinality(TextIn(h, c, n, LeftBrace)) + 1
    BY <1>3, <1>6, <1>9, BracesDiffer
  <2>2. LevelIn(g, c, p) = LevelIn(h, c, n) + 1
    BY <1>7, <2>1 DEF LevelIn
  <2> QED BY <1>8, <1>9, <2>2, BracesDiffer DEF p
<1>10. CASE text = RightBrace
  <2>1. /\ TextIn(g, c, p, LeftBrace) = TextIn(h, c, n, LeftBrace)
        /\ Cardinality(TextIn(g, c, p, RightBrace))
             = Cardinality(TextIn(h, c, n, RightBrace)) + 1
    BY <1>3, <1>6, <1>10, BracesDiffer
  <2>2. LevelIn(g, c, p) = LevelIn(h, c, n) - 1
    BY <1>7, <2>1 DEF LevelIn
  <2> QED BY <1>8, <1>10, <2>2, BracesDiffer DEF p
<1>11. CASE text \notin {LeftBrace, RightBrace}
  <2>1. LevelIn(g, c, p) = LevelIn(h, c, n)
    BY <1>3, <1>11 DEF LevelIn
  <2> QED BY <1>8, <1>11, <2>1 DEF p
<1> QED BY <1>9, <1>10, <1>11 DEF p

(* What it leaves enclosed.                                                *)
LEMMA OthersEnclosed ==
    ASSUME NEW h, NEW g, NEW n \in Nat, NEW c, NEW text, Longer(h, g, n, c, text)
    PROVE  \A d : d # c => EnclosedIn(g, d, n + 1) = EnclosedIn(h, d, n)
<1> DEFINE p == n + 1
<1>0. /\ LinesIn(g, c, p) = LinesIn(h, c, n) \cup {p}
      /\ \A d : d # c => LinesIn(g, d, p) = LinesIn(h, d, n)
      /\ \A d : p \notin LinesIn(h, d, n)
      /\ \A d : \A i \in LinesIn(h, d, n) : i \in 1 .. n /\ g[i] = h[i]
  <2>1. \A i \in 1 .. n : g[i] = h[i]
    BY DEF Longer
  <2>2. /\ LinesIn(g, c, n + 1) = LinesIn(h, c, n) \cup {n + 1}
        /\ \A d : d # c => LinesIn(g, d, n + 1) = LinesIn(h, d, n)
        /\ \A d : n + 1 \notin LinesIn(h, d, n)
        /\ \A d : \A i \in LinesIn(h, d, n) : i \in 1 .. n
    BY LongerLines, Zenon
  <2> QED BY <2>1, <2>2
<1>p. /\ p \in Nat /\ g[p].conn = c /\ g[p].text = text
      /\ \A i \in 1 .. n : i < p /\ ~(p < i)
  BY DEF Longer
<1> HIDE DEF p
<1>1. /\ \A i \in 1 .. n : LevelAt(g, i) = LevelAt(h, i) /\ (CommandAt(g, i) <=> CommandAt(h, i))
      /\ LevelAt(g, p) = LevelIn(g, c, p)
      /\ CommandAt(g, p) <=> text \notin {LeftBrace, RightBrace}
  BY <1>p, SamePrefix DEF Longer, LevelAt, CommandAt
<1>2. \A d : d # c => EnclosedIn(g, d, p) = EnclosedIn(h, d, n)
  BY <1>0, <1>1 DEF EnclosedIn
<1> QED BY <1>2 DEF p

(* A line outside braces ends what is enclosed, a command inside adds to   *)
(* it, a brace that stays inside does neither.                             *)
LEMMA LongerEnclosed ==
    ASSUME NEW h, NEW g, NEW n \in Nat, NEW c, NEW text, Longer(h, g, n, c, text)
    PROVE  /\ LevelIn(g, c, n + 1) <= 0 => EnclosedIn(g, c, n + 1) = {}
           /\ ~(LevelIn(g, c, n + 1) <= 0) /\ text \in {LeftBrace, RightBrace} =>
                 EnclosedIn(g, c, n + 1) = EnclosedIn(h, c, n)
           /\ ~(LevelIn(g, c, n + 1) <= 0) /\ text \notin {LeftBrace, RightBrace} =>
                 EnclosedIn(g, c, n + 1) = EnclosedIn(h, c, n) \cup {n + 1}
<1> DEFINE p == n + 1
<1>0. /\ LinesIn(g, c, p) = LinesIn(h, c, n) \cup {p}
      /\ \A d : d # c => LinesIn(g, d, p) = LinesIn(h, d, n)
      /\ \A d : p \notin LinesIn(h, d, n)
      /\ \A d : \A i \in LinesIn(h, d, n) : i \in 1 .. n /\ g[i] = h[i]
  <2>1. \A i \in 1 .. n : g[i] = h[i]
    BY DEF Longer
  <2>2. /\ LinesIn(g, c, n + 1) = LinesIn(h, c, n) \cup {n + 1}
        /\ \A d : d # c => LinesIn(g, d, n + 1) = LinesIn(h, d, n)
        /\ \A d : n + 1 \notin LinesIn(h, d, n)
        /\ \A d : \A i \in LinesIn(h, d, n) : i \in 1 .. n
    BY LongerLines, Zenon
  <2> QED BY <2>1, <2>2
<1>p. /\ p \in Nat /\ g[p].conn = c /\ g[p].text = text
      /\ \A i \in 1 .. n : i < p /\ ~(p < i)
  BY DEF Longer
<1> HIDE DEF p
<1>1. /\ \A i \in 1 .. n : LevelAt(g, i) = LevelAt(h, i) /\ (CommandAt(g, i) <=> CommandAt(h, i))
      /\ LevelAt(g, p) = LevelIn(g, c, p)
      /\ CommandAt(g, p) <=> text \notin {LeftBrace, RightBrace}
  BY <1>p, SamePrefix DEF Longer, LevelAt, CommandAt
<1>3. \A d : \A j \in LinesIn(h, d, n) : j < p /\ ~(p < j)
  BY <1>0, <1>p
<1>4. ASSUME LevelIn(g, c, p) <= 0 PROVE EnclosedIn(g, c, p) = {}
  <2>1. ~(p < p) /\ p \in LinesIn(g, c, p)
    BY <1>0, <1>p
  <2> QED BY <1>1, <1>3, <1>4, <2>1, <1>0 DEF EnclosedIn
<1>5. ASSUME ~(LevelIn(g, c, p) <= 0), NEW j
      PROVE  /\ j # p => (j \in EnclosedIn(g, c, p) <=> j \in EnclosedIn(h, c, n))
             /\ p \in EnclosedIn(g, c, p) <=> CommandAt(g, p)
  BY <1>1, <1>3, <1>5, <1>0, <1>p DEF EnclosedIn
<1>6. p \notin EnclosedIn(h, c, n)
  BY <1>0 DEF EnclosedIn
<1> QED BY <1>1, <1>4, <1>5, <1>6, <1>1 DEF p

-----------------------------------------------------------------------------
(***************************************************************************)
(*                  What a step does to lines and blocks                   *)
(***************************************************************************)

Lines == [conn : Connections, text : STRING]

(* Lines are texts, and only of connections that have been accepted is any *)
(* handled.                                                                *)
LinesInv ==
    /\ handled \in Seq(Lines)
    /\ net \in [Connections -> Seq(STRING)]
    /\ tail \in [Connections -> BOOLEAN]
    /\ \A c \in Connections : tail[c] => net[c] # <<>>
    /\ \A i \in 1 .. Len(handled) : phase[handled[i].conn] \notin {"away", "asking"}

(* A block is handed over unless it is empty.                              *)
Pushed(kind, commands) ==
    IF commands = <<>> THEN submitted' = submitted
                       ELSE submitted' = Append(submitted, [kind |-> kind, commands |-> commands])

blockVars == <<submitted, static, nesting, dynamic, handled>>

(* What each kind of line does.                                            *)
OpensOuter(c, text) ==
    /\ text = LeftBrace /\ nesting[c] = 0 /\ nesting' = [nesting EXCEPT ![c] = @ + 1]
    /\ static' = <<>> /\ Pushed("static", static) /\ UNCHANGED dynamic
OpensInner(c, text) ==
    /\ text = LeftBrace /\ nesting[c] # 0 /\ nesting' = [nesting EXCEPT ![c] = @ + 1]
    /\ UNCHANGED <<submitted, static, dynamic>>
ClosesOuter(c, text) ==
    /\ text = RightBrace /\ nesting[c] = 1 /\ nesting' = [nesting EXCEPT ![c] = @ - 1]
    /\ dynamic' = [dynamic EXCEPT ![c] = <<>>] /\ Pushed("dynamic", dynamic[c])
    /\ UNCHANGED static
ClosesInner(c, text) ==
    /\ text = RightBrace /\ nesting[c] # 1 /\ nesting' = [nesting EXCEPT ![c] = @ - 1]
    /\ UNCHANGED <<submitted, static, dynamic>>
AddsDynamic(c, text) ==
    /\ text \notin {LeftBrace, RightBrace} /\ nesting[c] > 0
    /\ dynamic' = [dynamic EXCEPT ![c] = Append(@, Len(handled'))]
    /\ UNCHANGED <<submitted, static, nesting>>
FillsStatic(c, text) ==
    /\ text \notin {LeftBrace, RightBrace} /\ nesting[c] <= 0 /\ Len(static) + 1 >= Bulk
    /\ static' = <<>> /\ Pushed("static", Append(static, Len(handled')))
    /\ UNCHANGED <<nesting, dynamic>>
AddsStatic(c, text) ==
    /\ text \notin {LeftBrace, RightBrace} /\ nesting[c] <= 0 /\ Len(static) + 1 < Bulk
    /\ static' = Append(static, Len(handled'))
    /\ UNCHANGED <<submitted, nesting, dynamic>>

LineEffect(c, text) ==
    /\ handled' = Append(handled, [conn |-> c, text |-> text])
    /\ \/ OpensOuter(c, text) \/ OpensInner(c, text)
       \/ ClosesOuter(c, text) \/ ClosesInner(c, text)
       \/ AddsDynamic(c, text) \/ FillsStatic(c, text) \/ AddsStatic(c, text)

(* What the other steps do: a new context, and the last disconnect.        *)
NewContext(c) ==
    /\ phase[c] = "asking"
    /\ nesting' = [nesting EXCEPT ![c] = 0] /\ dynamic' = [dynamic EXCEPT ![c] = <<>>]
    /\ UNCHANGED <<submitted, static, handled>>
Flush ==
    /\ static' = <<>> /\ Pushed("static", static)
    /\ UNCHANGED <<nesting, dynamic, handled>>

(* HandOver submits the block, unless it is empty.                         *)
LEMMA HandOverPushes ==
    ASSUME NEW kind, NEW commands, NEW rest, HandOver(kind, commands, rest)
    PROVE  Pushed(kind, commands)
BY DEF HandOver, Submit, Pushed, workerVars

(* What process_command does to lines and blocks.                          *)
LEMMA ProcessEffect ==
    ASSUME NEW c, NEW text, NEW rest, process_command(c, text, rest)
    PROVE  LineEffect(c, text)
<1>1. CASE text = LeftBrace
  BY <1>1, HandOverPushes, BracesDiffer
  DEF process_command, OpenBrace, LineEffect, OpensOuter, OpensInner, workerVars
<1>2. CASE text = RightBrace
  BY <1>2, HandOverPushes, BracesDiffer
  DEF process_command, CloseBrace, LineEffect, ClosesOuter, ClosesInner, workerVars
<1>3. CASE text \notin {LeftBrace, RightBrace}
  BY <1>3, HandOverPushes
  DEF process_command, Command, LineEffect, AddsDynamic, FillsStatic, AddsStatic, workerVars
<1> QED BY <1>1, <1>2, <1>3

(* The first line that waits, and those after it.                          *)
LEMMA FirstLine ==
    ASSUME LinesInv, NEW c \in Connections, net[c] # <<>>
    PROVE  Head(net[c]) \in STRING /\ Tail(net[c]) \in Seq(STRING)
BY HeadTailProperties DEF LinesInv

(* While a line with its newline waits, a tail without one is not the      *)
(* first.                                                                  *)
LEMMA CompleteLine ==
    ASSUME LinesInv, NEW c \in Connections, Complete(c) > 0
    PROVE  net[c] # <<>> /\ (tail[c] => Tail(net[c]) # <<>>)
<1> DEFINE s == net[c]
<1>1. s \in Seq(STRING) /\ Len(s) \in Nat /\ Complete(c) = Len(s) - (IF tail[c] THEN 1 ELSE 0)
  BY LenProperties DEF LinesInv, Complete
<1> HIDE DEF s
<1>2. Len(s) > 0
  BY <1>1
<1>3. s # <<>>
  BY <1>1, <1>2, EmptySeq
<1>4. Tail(s) \in Seq(STRING) /\ Len(Tail(s)) = Len(s) - 1
  BY <1>1, <1>3, HeadTailProperties
<1>5. ASSUME tail[c] PROVE Tail(s) # <<>>
  <2> DEFINE m == Len(s)
  <2>1. m \in Nat /\ Complete(c) = m - 1
    BY <1>1, <1>5
  <2>2. m > 1
    BY <2>1
  <2> HIDE DEF m
  <2>3. m - 1 # 0
    BY <2>1, <2>2
  <2>4. Len(Tail(s)) = m - 1
    BY <1>4 DEF m
  <2> QED BY <1>4, <2>3, <2>4, EmptySeq
<1> QED BY <1>3, <1>5 DEF s

(* All that a step can do to lines and blocks.                             *)
LEMMA StepEffect ==
    ASSUME LinesInv, [Next]_vars
    PROVE  \/ UNCHANGED blockVars
           \/ \E c \in Connections : NewContext(c)
           \/ Flush
           \/ \E c \in Connections : \E text \in STRING : phase[c] = "open" /\ LineEffect(c, text)
<1>1. ASSUME NEW c \in Connections, Client(c) PROVE UNCHANGED blockVars
  BY <1>1 DEF Client, ClientConnect, ClientCloses, ConnectionBreaks, workerVars, asyncVars, blockVars
<1>2. ASSUME NEW c \in Connections, Accept(c) PROVE NewContext(c)
  BY <1>2 DEF Accept, NewContext, SetTerminate, queues, workerVars
<1>3. ASSUME NEW c \in Connections, HandleLine(c)
      PROVE  \E text \in STRING : phase[c] = "open" /\ LineEffect(c, text)
  BY <1>3, CompleteLine, FirstLine, ProcessEffect DEF HandleLine, Reading
<1>4. ASSUME NEW c \in Connections, HandleEof(c)
      PROVE  \/ UNCHANGED blockVars
             \/ \E text \in STRING : phase[c] = "open" /\ LineEffect(c, text)
  <2>1. CASE tail[c]
    <3>1. process_command(c, Head(net[c]), EndSession(c)) /\ phase[c] = "open" /\ net[c] # <<>>
      BY <1>4, <2>1 DEF HandleEof, Reading, LinesInv
    <3> QED BY <3>1, FirstLine, ProcessEffect
  <2>2. CASE ~tail[c]
    BY <1>4, <2>2 DEF HandleEof, workerVars, asyncVars, blockVars
  <2> QED BY <2>1, <2>2
<1>5. ASSUME NEW c \in Connections, HandleError(c) PROVE UNCHANGED blockVars
  BY <1>5 DEF HandleError, workerVars, asyncVars, blockVars
<1>6. ASSUME NEW c \in Connections, Disconnect(c) PROVE UNCHANGED blockVars \/ Flush
  BY <1>6, HandOverPushes DEF Disconnect, Flush, workerVars, blockVars
<1>7. ASSUME NEW c \in Connections, RemoveSession(c) PROVE UNCHANGED blockVars
  BY <1>7 DEF RemoveSession, workerVars, asyncVars, blockVars
<1>8. ASSUME NEW w \in Workers, Start(w) \/ JoinNext(w) PROVE UNCHANGED blockVars
  BY <1>8 DEF Start, StartThread, JoinNext, Join, queues, asyncVars, blockVars
<1>9. CASE Notify \/ Terminate \/ Wake \/ Reset
  BY <1>9 DEF Notify, NotifyAll, Terminate, SetTerminate, Wake, NotifyStop, Reset, queues,
              asyncVars, workerVars, blockVars
<1>10. CASE Stop
  BY <1>10 DEF Stop, workerVars, asyncVars, blockVars
<1>11. ASSUME NEW w \in Workers, Worker(w) \/ Wakeup(w) PROVE UNCHANGED blockVars
  BY <1>11 DEF Worker, Wakeup, WorkerStep, LeaveLoop, DecideToSleep, FallAsleep, Take, WriteLog,
               WriteFile, SpuriousWakeup, queues, asyncVars, blockVars
<1>12. CASE UNCHANGED vars
  BY <1>12 DEF vars, blockVars
<1> QED BY <1>1, <1>2, <1>3, <1>4, <1>5, <1>6, <1>7, <1>8, <1>9, <1>10, <1>11, <1>12
        DEF Next, Handler, Step

(* No line has been handled at first.                                      *)
LEMMA LinesInit == Init => LinesInv
<1> SUFFICES ASSUME Init PROVE LinesInv
  OBVIOUS
<1>1. handled = <<>> /\ Len(handled) = 0 /\ handled \in Seq(Lines)
  BY DEF Init
<1>2. net \in [Connections -> Seq(STRING)] /\ tail \in [Connections -> BOOLEAN]
  BY DEF Init
<1>3. \A c \in Connections : ~tail[c]
  BY DEF Init
<1> QED BY <1>1, <1>2, <1>3 DEF LinesInv

(* A history that gets one line more.                                      *)
LEMMA OneLineMore ==
    ASSUME LinesInv, NEW c \in Connections, NEW text \in STRING,
           handled' = Append(handled, [conn |-> c, text |-> text])
    PROVE  /\ handled' \in Seq(Lines) /\ Len(handled) \in Nat /\ Len(handled') = Len(handled) + 1
           /\ Longer(handled, handled', Len(handled), c, text)
<1> DEFINE e == [conn |-> c, text |-> text]
<1>1. e \in Lines /\ e.conn = c /\ e.text = text
  BY DEF Lines
<1>2. handled \in Seq(Lines) /\ handled' = Append(handled, e)
  BY DEF LinesInv
<1> HIDE DEF e
<1>3. /\ handled' \in Seq(Lines) /\ Len(handled) \in Nat /\ Len(handled') = Len(handled) + 1
      /\ \A i \in 1 .. Len(handled) : handled'[i] = handled[i]
      /\ handled'[Len(handled) + 1] = e
  BY <1>1, <1>2, AppendProperties, LenProperties
<1> QED BY <1>1, <1>3 DEF Longer

(* What a handled line is.                                                 *)
LEMMA LinesOfHandled ==
    ASSUME LinesInv
    PROVE  \A i \in 1 .. Len(handled) : handled[i].conn \in Connections /\ handled[i].text \in STRING
<1>1. handled \in Seq(Lines)
  BY DEF LinesInv
<1>2. \A i \in 1 .. Len(handled) : handled[i] \in Lines
  BY <1>1, ElementOfSeq
<1> QED BY <1>2 DEF Lines

(* A line handled is one of an open connection.                            *)
LEMMA LineHandled ==
    ASSUME LinesInv, NEW c \in Connections, NEW text \in STRING,
           phase[c] = "open", UNCHANGED phase, handled' = Append(handled, [conn |-> c, text |-> text])
    PROVE  /\ handled' \in Seq(Lines)
           /\ \A i \in 1 .. Len(handled') : phase'[handled'[i].conn] \notin {"away", "asking"}
<1>1. /\ handled' \in Seq(Lines) /\ Len(handled) \in Nat /\ Len(handled') = Len(handled) + 1
      /\ Longer(handled, handled', Len(handled), c, text)
  BY OneLineMore
<1>2. ASSUME NEW i \in 1 .. Len(handled') PROVE phase[handled'[i].conn] \notin {"away", "asking"}
  <2>1. CASE i \in 1 .. Len(handled)
    BY <1>1, <2>1 DEF Longer, LinesInv
  <2>2. CASE i = Len(handled) + 1
    BY <1>1, <2>2 DEF Longer
  <2> QED BY <1>1, <2>1, <2>2
<1> QED BY <1>1, <1>2

(* Every step keeps what is said of lines.                                 *)
LEMMA LinesStep == SessionsInv /\ LinesInv /\ [Next]_vars => LinesInv'
<1> SUFFICES ASSUME SessionsInv, LinesInv, [Next]_vars PROVE LinesInv'
  OBVIOUS
<1>1. ASSUME UNCHANGED <<handled, net, tail>>,
             \A c \in Connections : phase[c] \notin {"away", "asking"}
                                     => phase'[c] \notin {"away", "asking"}
      PROVE  LinesInv'
  BY <1>1, LinesOfHandled DEF LinesInv
<1>2. ASSUME NEW c \in Connections, ClientConnect(c) PROVE LinesInv'
  <2>1. PICK script \in Scripts :
          /\ net' = [net EXCEPT ![c] = script.lines]
          /\ tail' = [tail EXCEPT ![c] = script.lines # <<>> /\ ~script.newline]
    BY <1>2 DEF ClientConnect
  <2>2. script.lines \in Seq(STRING)
    <3>1. script.lines \in Seq(STRING \ {""})
      BY ScriptsAssumption
    <3> QED BY <3>1, SeqMonotonic
  <2>3. net' \in [Connections -> Seq(STRING)] /\ tail' \in [Connections -> BOOLEAN]
    BY <2>1, <2>2 DEF LinesInv
  <2>4. \A d \in Connections : tail'[d] => net'[d] # <<>>
    BY <2>1 DEF LinesInv
  <2>5. phase[c] = "away" /\ phase' = [phase EXCEPT ![c] = "asking"] /\ UNCHANGED handled
    BY <1>2 DEF ClientConnect, asyncVars
  <2>6. \A i \in 1 .. Len(handled') : phase'[handled'[i].conn] \notin {"away", "asking"}
    BY <2>5, LinesOfHandled DEF LinesInv, SessionsInv
  <2> QED BY <2>3, <2>4, <2>5, <2>6 DEF LinesInv
<1>3. ASSUME NEW c \in Connections, ClientCloses(c) PROVE LinesInv'
  BY <1>1, <1>3 DEF ClientCloses, asyncVars
<1>4. ASSUME NEW c \in Connections, ConnectionBreaks(c) PROVE LinesInv'
  <2>1. PICK n \in 0 .. Len(net[c]) :
          /\ net' = [net EXCEPT ![c] = SubSeq(@, 1, n)]
          /\ tail' = [tail EXCEPT ![c] = @ /\ n = Len(net[c])]
    BY <1>4 DEF ConnectionBreaks
  <2>2. net[c] \in Seq(STRING) /\ Len(net[c]) \in Nat
    BY LenProperties DEF LinesInv
  <2>3. SubSeq(net[c], 1, n) \in Seq(STRING)
    <3>1. \A i \in 1 .. n : net[c][i] \in STRING
      <4>1. \A i \in 1 .. n : i \in 1 .. Len(net[c])
        BY <2>2
      <4> QED BY <2>2, <4>1, ElementOfSeq
    <3> QED BY <2>2, <3>1, SubSeqProperties
  <2>4. SubSeq(net[c], 1, Len(net[c])) = net[c]
    BY <2>2, SubSeqFull
  <2>5. net' \in [Connections -> Seq(STRING)] /\ tail' \in [Connections -> BOOLEAN]
    BY <2>1, <2>3 DEF LinesInv
  <2>6. \A d \in Connections : tail'[d] => net'[d] # <<>>
    BY <2>1, <2>4 DEF LinesInv
  <2>7. UNCHANGED <<handled, phase>>
    BY <1>4 DEF ConnectionBreaks, asyncVars
  <2> QED BY <2>5, <2>6, <2>7 DEF LinesInv
<1>5. ASSUME NEW c \in Connections, HandleLine(c) PROVE LinesInv'
  <2>1. /\ Complete(c) > 0 /\ phase[c] = "open" /\ UNCHANGED <<tail, phase>>
        /\ process_command(c, Head(net[c]), <<>>)
        /\ net' = [net EXCEPT ![c] = Tail(@)]
    BY <1>5 DEF HandleLine, Reading
  <2>2. Head(net[c]) \in STRING /\ Tail(net[c]) \in Seq(STRING) /\ (tail[c] => Tail(net[c]) # <<>>)
    BY <2>1, CompleteLine, FirstLine
  <2>3. /\ handled' \in Seq(Lines)
        /\ \A i \in 1 .. Len(handled') : phase'[handled'[i].conn] \notin {"away", "asking"}
    BY <2>1, <2>2, LineHandled DEF process_command
  <2>4. net' \in [Connections -> Seq(STRING)] /\ \A d \in Connections : tail'[d] => net'[d] # <<>>
    BY <2>1, <2>2 DEF LinesInv
  <2> QED BY <2>1, <2>3, <2>4 DEF LinesInv
<1>6. ASSUME NEW c \in Connections, HandleEof(c) PROVE LinesInv'
  <2>1. CASE ~tail[c]
    BY <1>1, <1>6, <2>1 DEF HandleEof, asyncVars
  <2>2. CASE tail[c]
    <3>1. /\ phase[c] = "open" /\ UNCHANGED phase
          /\ process_command(c, Head(net[c]), EndSession(c))
          /\ net' = [net EXCEPT ![c] = <<>>] /\ tail' = [tail EXCEPT ![c] = FALSE]
      BY <1>6, <2>2 DEF HandleEof, Reading
    <3>2. Head(net[c]) \in STRING
      BY <2>2, FirstLine DEF LinesInv
    <3>3. /\ handled' \in Seq(Lines)
          /\ \A i \in 1 .. Len(handled') : phase'[handled'[i].conn] \notin {"away", "asking"}
      BY <3>1, <3>2, LineHandled DEF process_command
    <3>4. /\ net' \in [Connections -> Seq(STRING)] /\ tail' \in [Connections -> BOOLEAN]
          /\ \A d \in Connections : tail'[d] => net'[d] # <<>>
      BY <3>1 DEF LinesInv
    <3> QED BY <3>3, <3>4 DEF LinesInv
  <2> QED BY <2>1, <2>2
<1>7. ASSUME NEW c \in Connections, Accept(c) \/ HandleError(c) PROVE LinesInv'
  BY <1>1, <1>7 DEF Accept, HandleError, netVars, asyncVars, SessionsInv
<1>8. ASSUME NEW c \in Connections, Disconnect(c) PROVE LinesInv'
  BY <1>1, <1>8 DEF Disconnect, netVars
<1>9. ASSUME NEW c \in Connections, RemoveSession(c) PROVE LinesInv'
  BY <1>1, <1>9 DEF RemoveSession, netVars, asyncVars, SessionsInv
<1>10. ASSUME NEW w \in Workers, Start(w) \/ JoinNext(w) PROVE LinesInv'
  BY <1>1, <1>10 DEF Start, JoinNext, asyncVars, netVars
<1>11. CASE Notify \/ Terminate \/ Wake \/ Reset \/ Stop
  BY <1>1, <1>11 DEF Notify, Terminate, Wake, Reset, Stop, asyncVars, netVars
<1>12. ASSUME NEW w \in Workers, Worker(w) \/ Wakeup(w) PROVE LinesInv'
  BY <1>1, <1>12 DEF Worker, Wakeup, asyncVars, netVars
<1>13. CASE UNCHANGED vars
  BY <1>1, <1>13 DEF vars
<1> QED BY <1>2, <1>3, <1>4, <1>5, <1>6, <1>7, <1>8, <1>9, <1>10, <1>11, <1>12, <1>13
        DEF Next, Client, Handler, Step

-----------------------------------------------------------------------------
(***************************************************************************)
(*                     Nesting levels and dynamic blocks                   *)
(***************************************************************************)

(* dynamic_block_nesting_level is the level the lines of the connection    *)
(* make, dynamic_block_task what they enclose.                             *)
NestInv ==
    /\ nesting \in [Connections -> Int]
    /\ dynamic \in [Connections -> Seq(Nat)]
    /\ \A c \in Connections :
          /\ nesting[c] = LevelIn(handled, c, Len(handled))
          /\ Increasing(dynamic[c])
          /\ Positions(dynamic[c]) = EnclosedIn(handled, c, Len(handled))
          /\ nesting[c] <= 0 => dynamic[c] = <<>>

(* The empty sequence of positions.                                        *)
LEMMA EmptyOrder ==
    /\ <<>> \in Seq(Nat) /\ Increasing(<<>>) /\ Positions(<<>>) = {}
<1>1. <<>> \in Seq(Nat) /\ Len(<<>>) = 0 /\ 1 .. 0 = {}
  OBVIOUS
<1> QED BY <1>1 DEF Increasing, Positions

(* Nothing is known of a connection without lines.                         *)
LEMMA NoLines ==
    ASSUME NEW h, NEW c, NEW n \in Nat, \A i \in 1 .. n : h[i].conn # c
    PROVE  LevelIn(h, c, n) = 0 /\ EnclosedIn(h, c, n) = {}
<1>1. LinesIn(h, c, n) = {}
  BY DEF LinesIn
<1>2. \A text : TextIn(h, c, n, text) = {}
  BY <1>1 DEF TextIn
<1>3. Cardinality({}) = 0
  BY FS_EmptySet
<1> QED BY <1>1, <1>2, <1>3 DEF LevelIn, EnclosedIn

(* What is enclosed is a command of the connection among the lines.        *)
LEMMA EnclosedRange ==
    ASSUME NEW h, NEW c, NEW n \in Nat
    PROVE  \A i \in EnclosedIn(h, c, n) :
              i \in 1 .. n /\ h[i].conn = c /\ CommandAt(h, i)
BY DEF EnclosedIn, LinesIn

(* The commands of a dynamic block are lines handled.                      *)
LEMMA DynamicRange ==
    ASSUME LinesInv, NestInv, NEW c \in Connections
    PROVE  /\ Len(handled) \in Nat
           /\ \A j \in 1 .. Len(dynamic[c]) : dynamic[c][j] \in 1 .. Len(handled)
<1>1. Len(handled) \in Nat
  BY LenProperties DEF LinesInv
<1>2. Positions(dynamic[c]) = EnclosedIn(handled, c, Len(handled))
  BY DEF NestInv
<1> QED BY <1>1, <1>2, EnclosedRange DEF Positions

(* At first no line has been handled, and no level is other than 0.        *)
LEMMA NestInit == Init => NestInv
<1> SUFFICES ASSUME Init PROVE NestInv
  OBVIOUS
<1>1. handled = <<>> /\ Len(handled) = 0
  BY DEF Init
<1>2. \A c : LevelIn(handled, c, 0) = 0 /\ EnclosedIn(handled, c, 0) = {}
  <2>1. \A c : \A i \in 1 .. 0 : handled[i].conn # c
    OBVIOUS
  <2> QED BY <2>1, NoLines
<1>3. /\ nesting \in [Connections -> Int] /\ dynamic \in [Connections -> Seq(Nat)]
      /\ \A c \in Connections : nesting[c] = 0 /\ dynamic[c] = <<>>
  BY EmptyOrder DEF Init
<1> QED BY <1>1, <1>2, <1>3, EmptyOrder DEF NestInv

(* A line says nothing of the other connections.                           *)
LEMMA OtherLines ==
    ASSUME NEW h, NEW g, NEW n \in Nat, NEW c, NEW text, Longer(h, g, n, c, text)
    PROVE  \A d : d # c => /\ LevelIn(g, d, n + 1) = LevelIn(h, d, n)
                          /\ EnclosedIn(g, d, n + 1) = EnclosedIn(h, d, n)
<1>1. \A d : d # c => LevelIn(g, d, n + 1) = LevelIn(h, d, n)
  BY LongerLevel
<1>2. \A d : d # c => EnclosedIn(g, d, n + 1) = EnclosedIn(h, d, n)
  BY OthersEnclosed
<1> QED BY <1>1, <1>2, Zenon

(* A line of a connection changes what is known of it alone.               *)
LEMMA NestLine ==
    ASSUME NestInv, NEW c \in Connections, NEW text,
           Len(handled) \in Nat, Len(handled') = Len(handled) + 1,
           Longer(handled, handled', Len(handled), c, text),
           \A d \in Connections : d # c => nesting'[d] = nesting[d] /\ dynamic'[d] = dynamic[d],
           nesting' \in [Connections -> Int], dynamic' \in [Connections -> Seq(Nat)],
           nesting'[c] = LevelIn(handled', c, Len(handled) + 1),
           Increasing(dynamic'[c]),
           Positions(dynamic'[c]) = EnclosedIn(handled', c, Len(handled) + 1),
           nesting'[c] <= 0 => dynamic'[c] = <<>>
    PROVE  NestInv'
<1>1. \A d : d # c =>
        /\ LevelIn(handled', d, Len(handled) + 1) = LevelIn(handled, d, Len(handled))
        /\ EnclosedIn(handled', d, Len(handled) + 1) = EnclosedIn(handled, d, Len(handled))
  BY OtherLines
<1>2. ASSUME NEW d \in Connections
      PROVE  /\ nesting'[d] = LevelIn(handled', d, Len(handled'))
             /\ Increasing(dynamic'[d])
             /\ Positions(dynamic'[d]) = EnclosedIn(handled', d, Len(handled'))
             /\ nesting'[d] <= 0 => dynamic'[d] = <<>>
  <2>1. CASE d = c
    BY <2>1
  <2>2. CASE d # c
    BY <1>1, <2>2 DEF NestInv
  <2> QED BY <2>1, <2>2
<1> QED BY <1>2 DEF NestInv

(* What the level of a connection is after a line of it, and what it       *)
(* encloses.                                                               *)
LEMMA LineLevels ==
    ASSUME LinesInv, NestInv, NEW c \in Connections, NEW text \in STRING,
           handled' = Append(handled, [conn |-> c, text |-> text])
    PROVE  LET level == LevelIn(handled', c, Len(handled) + 1)
               enclosed == EnclosedIn(handled', c, Len(handled) + 1)
           IN  /\ nesting[c] \in Int /\ dynamic[c] \in Seq(Nat)
               /\ text = LeftBrace => level = nesting[c] + 1
               /\ text = RightBrace => level = nesting[c] - 1
               /\ text \notin {LeftBrace, RightBrace} => level = nesting[c]
               /\ level <= 0 => enclosed = {}
               /\ ~(level <= 0) /\ text \in {LeftBrace, RightBrace} =>
                     enclosed = Positions(dynamic[c])
               /\ ~(level <= 0) /\ text \notin {LeftBrace, RightBrace} =>
                     enclosed = Positions(dynamic[c]) \cup {Len(handled) + 1}
<1>1. /\ Len(handled) \in Nat
      /\ Longer(handled, handled', Len(handled), c, text)
  BY OneLineMore
<1>2. /\ nesting[c] \in Int /\ dynamic[c] \in Seq(Nat)
      /\ nesting[c] = LevelIn(handled, c, Len(handled))
      /\ Positions(dynamic[c]) = EnclosedIn(handled, c, Len(handled))
  BY DEF NestInv
<1> DEFINE g == handled'
           n == Len(handled)
<1>3. /\ text = LeftBrace => LevelIn(g, c, n + 1) = LevelIn(handled, c, n) + 1
      /\ text = RightBrace => LevelIn(g, c, n + 1) = LevelIn(handled, c, n) - 1
      /\ text \notin {LeftBrace, RightBrace} => LevelIn(g, c, n + 1) = LevelIn(handled, c, n)
  BY <1>1, LongerLevel
<1>4. /\ LevelIn(g, c, n + 1) <= 0 => EnclosedIn(g, c, n + 1) = {}
      /\ ~(LevelIn(g, c, n + 1) <= 0) /\ text \in {LeftBrace, RightBrace} =>
            EnclosedIn(g, c, n + 1) = EnclosedIn(handled, c, n)
      /\ ~(LevelIn(g, c, n + 1) <= 0) /\ text \notin {LeftBrace, RightBrace} =>
            EnclosedIn(g, c, n + 1) = EnclosedIn(handled, c, n) \cup {n + 1}
  BY <1>1, LongerEnclosed
<1> QED BY <1>2, <1>3, <1>4

(* A line: the counter moves as the level does, and the block with what is *)
(* enclosed.                                                               *)
LEMMA NestOfLine ==
    ASSUME LinesInv, NestInv, NEW c \in Connections, NEW text \in STRING, LineEffect(c, text)
    PROVE  NestInv'
<1> DEFINE n == Len(handled)
           level == LevelIn(handled', c, n + 1)
           enclosed == EnclosedIn(handled', c, n + 1)
<1>1. handled' = Append(handled, [conn |-> c, text |-> text])
  BY DEF LineEffect
<1>2. /\ nesting[c] \in Int /\ dynamic[c] \in Seq(Nat)
      /\ text = LeftBrace => level = nesting[c] + 1
      /\ text = RightBrace => level = nesting[c] - 1
      /\ text \notin {LeftBrace, RightBrace} => level = nesting[c]
      /\ level <= 0 => enclosed = {}
      /\ ~(level <= 0) /\ text \in {LeftBrace, RightBrace} => enclosed = Positions(dynamic[c])
      /\ ~(level <= 0) /\ text \notin {LeftBrace, RightBrace} =>
            enclosed = Positions(dynamic[c]) \cup {n + 1}
  BY <1>1, LineLevels
<1> HIDE DEF level, enclosed
<1>3. /\ nesting \in [Connections -> Int] /\ dynamic \in [Connections -> Seq(Nat)]
      /\ Increasing(dynamic[c]) /\ (nesting[c] <= 0 => dynamic[c] = <<>>)
  BY DEF NestInv
<1>4. SUFFICES
        /\ \A d \in Connections : d # c => nesting'[d] = nesting[d] /\ dynamic'[d] = dynamic[d]
        /\ nesting' \in [Connections -> Int] /\ dynamic' \in [Connections -> Seq(Nat)]
        /\ nesting'[c] = level
        /\ Increasing(dynamic'[c]) /\ Positions(dynamic'[c]) = enclosed
        /\ nesting'[c] <= 0 => dynamic'[c] = <<>>
  BY <1>1, OneLineMore, NestLine DEF level, enclosed
<1>5. CASE OpensOuter(c, text) \/ OpensInner(c, text)
  <2>1. /\ text = LeftBrace /\ nesting' = [nesting EXCEPT ![c] = @ + 1] /\ dynamic' = dynamic
    BY <1>5 DEF OpensOuter, OpensInner
  <2>2. level <= 0 => nesting[c] <= 0
    BY <1>2, <2>1
  <2>3. /\ nesting' \in [Connections -> Int] /\ nesting'[c] = level
        /\ \A d \in Connections : d # c => nesting'[d] = nesting[d]
    BY <1>2, <1>3, <2>1
  <2>4. Positions(dynamic[c]) = enclosed
    <3>1. CASE level <= 0
      BY <1>2, <1>3, <2>2, <3>1, EmptyOrder
    <3>2. CASE ~(level <= 0)
      BY <1>2, <2>1, <3>2
    <3> QED BY <3>1, <3>2
  <2>5. level <= 0 => dynamic[c] = <<>>
    BY <1>3, <2>2
  <2> QED BY <1>3, <2>1, <2>3, <2>4, <2>5
<1>6. CASE ClosesOuter(c, text)
  <2>1. /\ text = RightBrace /\ nesting[c] = 1 /\ nesting' = [nesting EXCEPT ![c] = @ - 1]
        /\ dynamic' = [dynamic EXCEPT ![c] = <<>>]
    BY <1>6 DEF ClosesOuter
  <2>2. level = 0 /\ enclosed = {}
    BY <1>2, <2>1
  <2> QED BY <1>2, <1>3, <2>1, <2>2, EmptyOrder
<1>7. CASE ClosesInner(c, text)
  <2>1. /\ text = RightBrace /\ nesting[c] # 1 /\ nesting' = [nesting EXCEPT ![c] = @ - 1]
        /\ dynamic' = dynamic
    BY <1>7 DEF ClosesInner
  <2>2. level <= 0 => nesting[c] <= 0
    BY <1>2, <2>1
  <2>3. /\ nesting' \in [Connections -> Int] /\ nesting'[c] = level
        /\ \A d \in Connections : d # c => nesting'[d] = nesting[d]
    BY <1>2, <1>3, <2>1
  <2>4. Positions(dynamic[c]) = enclosed
    <3>1. CASE level <= 0
      BY <1>2, <1>3, <2>2, <3>1, EmptyOrder
    <3>2. CASE ~(level <= 0)
      BY <1>2, <2>1, <3>2
    <3> QED BY <3>1, <3>2
  <2>5. level <= 0 => dynamic[c] = <<>>
    BY <1>3, <2>2
  <2> QED BY <1>3, <2>1, <2>3, <2>4, <2>5
<1>8. CASE AddsDynamic(c, text)
  <2>1. n \in Nat /\ Len(handled') = n + 1 /\ \A j \in 1 .. Len(dynamic[c]) : dynamic[c][j] \in 1 .. n
    BY <1>1, OneLineMore, DynamicRange
  <2>2. /\ text \notin {LeftBrace, RightBrace} /\ nesting[c] > 0 /\ nesting' = nesting
        /\ dynamic' = [dynamic EXCEPT ![c] = Append(@, n + 1)]
    BY <1>8, <2>1 DEF AddsDynamic
  <2>3. level = nesting[c] /\ ~(level <= 0) /\ enclosed = Positions(dynamic[c]) \cup {n + 1}
    <3>1. level = nesting[c] /\ ~(level <= 0)
      BY <1>2, <2>2
    <3> QED BY <1>2, <2>2, <3>1
  <2>4. /\ Append(dynamic[c], n + 1) \in Seq(Nat)
        /\ Increasing(Append(dynamic[c], n + 1))
        /\ Positions(Append(dynamic[c], n + 1)) = Positions(dynamic[c]) \cup {n + 1}
    BY <1>2, <1>3, <2>1, AppendOrdered, AppendPositions, AppendIs
  <2> QED BY <1>2, <1>3, <2>2, <2>3, <2>4
<1>9. CASE FillsStatic(c, text) \/ AddsStatic(c, text)
  <2>1. /\ text \notin {LeftBrace, RightBrace} /\ nesting[c] <= 0
        /\ nesting' = nesting /\ dynamic' = dynamic
    BY <1>9 DEF FillsStatic, AddsStatic
  <2>2. level = nesting[c] /\ enclosed = {} /\ dynamic[c] = <<>>
    BY <1>2, <1>3, <2>1
  <2> QED BY <1>2, <1>3, <2>1, <2>2, EmptyOrder
<1> QED BY <1>5, <1>6, <1>7, <1>8, <1>9 DEF LineEffect

(* A new context belongs to a connection without lines.                    *)
LEMMA NestOfContext ==
    ASSUME LinesInv, NestInv, NEW c \in Connections, NewContext(c)
    PROVE  NestInv'
<1>1. \A i \in 1 .. Len(handled) : handled[i].conn # c
  BY DEF LinesInv, NewContext
<1>2. Len(handled) \in Nat
  BY LenProperties DEF LinesInv
<1>3. LevelIn(handled, c, Len(handled)) = 0 /\ EnclosedIn(handled, c, Len(handled)) = {}
  BY <1>1, <1>2, NoLines
<1>4. /\ handled' = handled
      /\ nesting' = [nesting EXCEPT ![c] = 0] /\ dynamic' = [dynamic EXCEPT ![c] = <<>>]
  BY DEF NewContext
<1>5. nesting' \in [Connections -> Int] /\ dynamic' \in [Connections -> Seq(Nat)]
  BY <1>4, EmptyOrder DEF NestInv
<1>6. ASSUME NEW d \in Connections
      PROVE  /\ nesting'[d] = LevelIn(handled, d, Len(handled))
             /\ Increasing(dynamic'[d])
             /\ Positions(dynamic'[d]) = EnclosedIn(handled, d, Len(handled))
             /\ nesting'[d] <= 0 => dynamic'[d] = <<>>
  <2>1. CASE d = c
    <3>1. nesting'[d] = 0 /\ dynamic'[d] = <<>>
      BY <1>4, <2>1 DEF NestInv
    <3> QED BY <1>3, <2>1, <3>1, EmptyOrder
  <2>2. CASE d # c
    <3>1. nesting'[d] = nesting[d] /\ dynamic'[d] = dynamic[d]
      BY <1>4, <2>2 DEF NestInv
    <3> QED BY <3>1 DEF NestInv
  <2> QED BY <2>1, <2>2
<1> QED BY <1>4, <1>5, <1>6 DEF NestInv

(* Every step keeps counters and dynamic blocks right.                     *)
LEMMA NestStep == LinesInv /\ NestInv /\ [Next]_vars => NestInv'
<1> SUFFICES ASSUME LinesInv, NestInv, [Next]_vars PROVE NestInv'
  OBVIOUS
<1>1. ASSUME UNCHANGED <<nesting, dynamic, handled>> PROVE NestInv'
  BY <1>1 DEF NestInv
<1>2. CASE UNCHANGED blockVars
  BY <1>1, <1>2 DEF blockVars
<1>3. CASE Flush
  BY <1>1, <1>3 DEF Flush
<1> QED BY <1>2, <1>3, StepEffect, NestOfContext, NestOfLine

-----------------------------------------------------------------------------
(***************************************************************************)
(*                           The static blocks                             *)
(***************************************************************************)

Blocks      == [kind : {"static", "dynamic"}, commands : Seq(Nat)]
StaticOf(S) == {b \in 1 .. Len(S) : S[b].kind = "static"}

(* The commands outside braces among the first n lines of a history.       *)
OutsideIn(h, n) == {i \in 1 .. n : CommandAt(h, i) /\ LevelAt(h, i) <= 0}

(* A line that begins a dynamic block.                                     *)
OpensAt(h, i) == h[i].text = LeftBrace /\ LevelAt(h, i) = 1

(* Blocks handed over are not empty, of lines handled, not too long.       *)
BlocksFine(S, n) ==
    /\ S \in Seq(Blocks)
    /\ \A b \in 1 .. Len(S) :
          /\ S[b].commands # <<>> /\ Positions(S[b].commands) \subseteq 1 .. n
          /\ S[b].kind = "static" => Len(S[b].commands) = 1 \/ Len(S[b].commands) <= Bulk

(* The static blocks of S and then s hold the lines out, in order.         *)
Divides(S, s, out) ==
    /\ s \in Seq(Nat) /\ Increasing(s)
    /\ \A b \in StaticOf(S) : Increasing(S[b].commands) /\ Before(S[b].commands, s)
    /\ \A a, b \in StaticOf(S) : a < b => Before(S[a].commands, S[b].commands)
    /\ \A x : x \in out <=> \/ x \in Positions(s)
                            \/ \E b \in StaticOf(S) : x \in Positions(S[b].commands)

(* No dynamic block begins within a static block of S, or within s so far. *)
NoneOpens(h, S, s, n) ==
    /\ \A j \in Positions(s) : \A i \in j .. n : ~OpensAt(h, i)
    /\ \A b \in StaticOf(S) : \A j, k \in Positions(S[b].commands) :
          \A i \in j .. k : ~OpensAt(h, i)

StaticInv ==
    /\ BlocksFine(submitted, Len(handled))
    /\ Divides(submitted, static, OutsideIn(handled, Len(handled)))
    /\ NoneOpens(handled, submitted, static, Len(handled))
    /\ static = <<>> \/ Len(static) < Bulk

(* One block more.                                                         *)
LEMMA PushedBlock ==
    ASSUME NEW S \in Seq(Blocks), NEW r \in Blocks
    PROVE  /\ Append(S, r) \in Seq(Blocks) /\ Len(S) \in Nat /\ Len(Append(S, r)) = Len(S) + 1
           /\ \A b \in 1 .. Len(S) : Append(S, r)[b] = S[b]
           /\ Append(S, r)[Len(S) + 1] = r
           /\ \A b \in StaticOf(S) : b \in 1 .. Len(S)
           /\ r.kind = "static" => StaticOf(Append(S, r)) = StaticOf(S) \cup {Len(S) + 1}
           /\ r.kind # "static" => StaticOf(Append(S, r)) = StaticOf(S)
<1>1. /\ Append(S, r) \in Seq(Blocks) /\ Len(S) \in Nat /\ Len(Append(S, r)) = Len(S) + 1
      /\ \A b \in 1 .. Len(S) : Append(S, r)[b] = S[b]
      /\ Append(S, r)[Len(S) + 1] = r
  BY AppendProperties, LenProperties
<1> DEFINE T == Append(S, r)
<1> HIDE DEF T
<1>2. \A b : b \in StaticOf(T) <=> b \in StaticOf(S) \/ (b = Len(S) + 1 /\ r.kind = "static")
  <2>1. /\ T[Len(S) + 1] = r /\ \A b \in 1 .. Len(S) : T[b] = S[b]
        /\ 1 .. Len(T) = (1 .. Len(S)) \cup {Len(S) + 1} /\ Len(S) + 1 \notin 1 .. Len(S)
    BY <1>1 DEF T
  <2> QED BY <2>1 DEF StaticOf
<1>3. \A b \in StaticOf(S) : b \in 1 .. Len(S)
  BY DEF StaticOf
<1> QED BY <1>1, <1>2, <1>3 DEF T

(* One block more that is as it should be.                                 *)
LEMMA PushedFine ==
    ASSUME NEW S, NEW n \in Nat, NEW m \in Nat, n <= m, BlocksFine(S, n),
           NEW r \in Blocks, r.commands # <<>>, Positions(r.commands) \subseteq 1 .. m,
           r.kind = "static" => Len(r.commands) = 1 \/ Len(r.commands) <= Bulk
    PROVE  BlocksFine(Append(S, r), m)
<1>1. S \in Seq(Blocks)
  BY DEF BlocksFine
<1>2. /\ Append(S, r) \in Seq(Blocks) /\ Len(S) \in Nat /\ Len(Append(S, r)) = Len(S) + 1
      /\ \A b \in 1 .. Len(S) : Append(S, r)[b] = S[b]
      /\ Append(S, r)[Len(S) + 1] = r
  BY <1>1, PushedBlock
<1> DEFINE T == Append(S, r)
<1> HIDE DEF T
<1>3. ASSUME NEW b \in 1 .. Len(T)
      PROVE  /\ T[b].commands # <<>> /\ Positions(T[b].commands) \subseteq 1 .. m
             /\ T[b].kind = "static" => Len(T[b].commands) = 1 \/ Len(T[b].commands) <= Bulk
  <2>1. CASE b \in 1 .. Len(S)
    <3>1. T[b] = S[b] /\ 1 .. n \subseteq 1 .. m
      BY <1>2, <2>1 DEF T
    <3> QED BY <2>1, <3>1 DEF BlocksFine
  <2>2. CASE b = Len(S) + 1
    <3>1. T[b] = r
      BY <1>2, <2>2 DEF T
    <3> QED BY <3>1
  <2> QED BY <1>2, <2>1, <2>2 DEF T
<1> QED BY <1>2, <1>3 DEF BlocksFine, T

(* A line more is no harm.                                                 *)
LEMMA LaterFine ==
    ASSUME NEW S, NEW n \in Nat, BlocksFine(S, n)
    PROVE  BlocksFine(S, n + 1)
<1>1. 1 .. n \subseteq 1 .. n + 1
  OBVIOUS
<1> QED BY <1>1 DEF BlocksFine

(* A command more outside braces.                                          *)
LEMMA GrownDivides ==
    ASSUME NEW S, NEW s, NEW out, NEW n \in Nat, out \subseteq 1 .. n, Divides(S, s, out)
    PROVE  Divides(S, Append(s, n + 1), out \cup {n + 1})
<1> DEFINE t == Append(s, n + 1)
<1>1. s \in Seq(Nat) /\ Increasing(s) /\ Positions(s) \subseteq 1 .. n
  BY DEF Divides
<1>2. \A j \in 1 .. Len(s) : s[j] \in 1 .. n
  BY <1>1 DEF Positions
<1>3. t \in Seq(Nat) /\ Increasing(t) /\ Positions(t) = Positions(s) \cup {n + 1}
  BY <1>1, <1>2, AppendOrdered, AppendPositions, AppendIs
<1> HIDE DEF t
<1>4. ASSUME NEW b \in StaticOf(S) PROVE Before(S[b].commands, t)
  <2>1. Before(S[b].commands, s) /\ Positions(S[b].commands) \subseteq 1 .. n
    BY DEF Divides
  <2>2. \A x \in Positions(S[b].commands) : \A y \in Positions(s) : x < y
    BY <2>1, BeforePositions
  <2>3. \A x \in Positions(S[b].commands) : x < n + 1
    BY <2>1
  <2>4. \A x \in Positions(S[b].commands) : \A y \in Positions(t) : x < y
    BY <1>3, <2>2, <2>3
  <2> QED BY <2>4, BeforePositions
<1>5. \A x : x \in out \cup {n + 1} <=> \/ x \in Positions(t)
                                        \/ \E b \in StaticOf(S) : x \in Positions(S[b].commands)
  BY <1>3 DEF Divides
<1>6. /\ \A b \in StaticOf(S) : Increasing(S[b].commands)
      /\ \A a, b \in StaticOf(S) : a < b => Before(S[a].commands, S[b].commands)
  BY DEF Divides
<1> QED BY <1>3, <1>4, <1>5, <1>6 DEF Divides, t

(* A dynamic block more.                                                   *)
LEMMA DynamicDivides ==
    ASSUME NEW S \in Seq(Blocks), NEW s, NEW out, Divides(S, s, out),
           NEW r \in Blocks, r.kind = "dynamic"
    PROVE  Divides(Append(S, r), s, out)
<1> DEFINE T == Append(S, r)
<1>1. StaticOf(T) = StaticOf(S) /\ \A b \in StaticOf(S) : T[b] = S[b]
  BY PushedBlock
<1> HIDE DEF T
<1> QED BY <1>1 DEF Divides, T

(* The static block handed over.                                           *)
LEMMA HandedDivides ==
    ASSUME NEW S \in Seq(Blocks), NEW s, NEW out, Divides(S, s, out),
           NEW r \in Blocks, r.kind = "static", r.commands = s
    PROVE  Divides(Append(S, r), <<>>, out)
<1> DEFINE T == Append(S, r)
           p == Len(S) + 1
<1>1. /\ StaticOf(T) = StaticOf(S) \cup {p} /\ T[p].commands = s
      /\ \A b \in StaticOf(S) : T[b] = S[b] /\ b < p
  <2>1. /\ Len(S) \in Nat /\ Append(S, r)[Len(S) + 1] = r
        /\ \A b \in 1 .. Len(S) : Append(S, r)[b] = S[b]
        /\ \A b \in StaticOf(S) : b \in 1 .. Len(S)
        /\ StaticOf(Append(S, r)) = StaticOf(S) \cup {Len(S) + 1}
    BY PushedBlock
  <2>2. \A b \in StaticOf(S) : b < Len(S) + 1
    BY <2>1
  <2> QED BY <2>1, <2>2
<1>2. <<>> \in Seq(Nat) /\ Increasing(<<>>) /\ Positions(<<>>) = {}
  BY EmptyOrder
<1>3. \A b : Before(T[b].commands, <<>>)
  BY <1>2, BeforePositions
<1>4. \A a, b \in StaticOf(T) : a = p => ~(a < b)
  <2>1. p \in Nat /\ \A b \in StaticOf(S) : b \in Nat
    BY PushedBlock
  <2> QED BY <1>1, <2>1
<1> HIDE DEF T, p
<1>5. \A b \in StaticOf(T) : Increasing(T[b].commands)
  BY <1>1 DEF Divides
<1>6. \A a, b \in StaticOf(T) : a < b => Before(T[a].commands, T[b].commands)
  BY <1>1, <1>4 DEF Divides
<1>7. \A x : x \in out <=> \/ x \in Positions(<<>>)
                           \/ \E b \in StaticOf(T) : x \in Positions(T[b].commands)
  BY <1>1, <1>2 DEF Divides
<1> QED BY <1>2, <1>3, <1>5, <1>6, <1>7 DEF Divides, T

(* What is outside braces after one line more.                             *)
LEMMA LongerOutside ==
    ASSUME NEW h, NEW g, NEW n \in Nat, NEW c, NEW text, Longer(h, g, n, c, text)
    PROVE  /\ OutsideIn(h, n) \subseteq 1 .. n
           /\ text \notin {LeftBrace, RightBrace} /\ LevelIn(g, c, n + 1) <= 0 =>
                 OutsideIn(g, n + 1) = OutsideIn(h, n) \cup {n + 1}
           /\ text \in {LeftBrace, RightBrace} \/ ~(LevelIn(g, c, n + 1) <= 0) =>
                 OutsideIn(g, n + 1) = OutsideIn(h, n)
           /\ OpensAt(g, n + 1) <=> text = LeftBrace /\ LevelIn(g, c, n + 1) = 1
           /\ \A i \in 1 .. n : OpensAt(g, i) <=> OpensAt(h, i)
<1> DEFINE p == n + 1
<1>1. \A i \in 1 .. n : g[i] = h[i]
  BY DEF Longer
<1>2. /\ \A i \in 1 .. n : LevelAt(g, i) = LevelAt(h, i)
      /\ \A i \in 1 .. n : CommandAt(g, i) <=> CommandAt(h, i)
  BY <1>1, SamePrefix
<1>3. /\ LevelAt(g, p) = LevelIn(g, c, p) /\ g[p].text = text
      /\ CommandAt(g, p) <=> text \notin {LeftBrace, RightBrace}
  BY DEF Longer, LevelAt, CommandAt
<1>4. 1 .. p = (1 .. n) \cup {p} /\ p \notin 1 .. n
  OBVIOUS
<1> HIDE DEF p
<1>5. OutsideIn(h, n) \subseteq 1 .. n
  BY DEF OutsideIn
<1>6. \A i : i \in OutsideIn(g, p) <=>
                \/ i \in OutsideIn(h, n)
                \/ i = p /\ text \notin {LeftBrace, RightBrace} /\ LevelIn(g, c, p) <= 0
  BY <1>2, <1>3, <1>4 DEF OutsideIn
<1>7. OpensAt(g, p) <=> text = LeftBrace /\ LevelIn(g, c, p) = 1
  BY <1>3 DEF OpensAt
<1>8. \A i \in 1 .. n : OpensAt(g, i) <=> OpensAt(h, i)
  BY <1>1, <1>2 DEF OpensAt
<1> QED BY <1>5, <1>6, <1>7, <1>8 DEF p

(* What the invariant says of any history and blocks but for the length of *)
(* the unfinished one.                                                     *)
StaticRight(h, S, s, n) ==
    BlocksFine(S, n) /\ Divides(S, s, OutsideIn(h, n)) /\ NoneOpens(h, S, s, n)

(* Static blocks hold lines handled.                                       *)
LEMMA RightPositions ==
    ASSUME NEW h, NEW S, NEW s, NEW n \in Nat, StaticRight(h, S, s, n)
    PROVE  /\ Positions(s) \subseteq 1 .. n
           /\ \A b \in StaticOf(S) : b \in 1 .. Len(S) /\ Positions(S[b].commands) \subseteq 1 .. n
<1>1. \A x : x \in Positions(s) => x \in OutsideIn(h, n)
  BY DEF StaticRight, Divides
<1>2. \A b \in StaticOf(S) : b \in 1 .. Len(S)
  BY DEF StaticOf
<1> QED BY <1>1, <1>2 DEF StaticRight, BlocksFine, OutsideIn

(* A line that is no command outside braces, and one that is.              *)
LEMMA StaysRight ==
    ASSUME NEW h, NEW g, NEW n \in Nat, NEW c, NEW text, Longer(h, g, n, c, text),
           NEW S, NEW s, StaticRight(h, S, s, n),
           text \in {LeftBrace, RightBrace} \/ ~(LevelIn(g, c, n + 1) <= 0),
           s = <<>> \/ ~(text = LeftBrace /\ LevelIn(g, c, n + 1) = 1)
    PROVE  StaticRight(g, S, s, n + 1)
<1>1. /\ OutsideIn(g, n + 1) = OutsideIn(h, n)
      /\ OpensAt(g, n + 1) <=> text = LeftBrace /\ LevelIn(g, c, n + 1) = 1
      /\ \A i \in 1 .. n : OpensAt(g, i) <=> OpensAt(h, i)
  BY LongerOutside
<1>2. BlocksFine(S, n + 1)
  BY LaterFine DEF StaticRight
<1>3. /\ Positions(s) \subseteq 1 .. n
      /\ \A b \in StaticOf(S) : Positions(S[b].commands) \subseteq 1 .. n
  BY RightPositions
<1>4. ASSUME NEW j \in Positions(s), NEW i \in j .. n + 1 PROVE ~OpensAt(g, i)
  <2>1. s # <<>>
    BY EmptyOrder
  <2>2. j \in 1 .. n
    BY <1>3
  <2>3. CASE i \in j .. n
    <3>1. i \in 1 .. n
      BY <2>2, <2>3
    <3> QED BY <1>1, <2>3, <3>1 DEF StaticRight, NoneOpens
  <2>4. CASE i = n + 1
    BY <1>1, <2>1, <2>4
  <2> QED BY <2>2, <2>3, <2>4
<1>5. ASSUME NEW b \in StaticOf(S), NEW j \in Positions(S[b].commands),
             NEW k \in Positions(S[b].commands), NEW i \in j .. k
      PROVE  ~OpensAt(g, i)
  <2>1. j \in 1 .. n /\ k \in 1 .. n
    BY <1>3
  <2>2. i \in 1 .. n
    BY <2>1
  <2> QED BY <1>1, <2>2 DEF StaticRight, NoneOpens
<1>6. Divides(S, s, OutsideIn(g, n + 1)) /\ NoneOpens(g, S, s, n + 1)
  BY <1>1, <1>4, <1>5 DEF StaticRight, NoneOpens
<1> QED BY <1>2, <1>6 DEF StaticRight

(* A command outside braces goes to the end of the static block.           *)
LEMMA GrowsRight ==
    ASSUME NEW h, NEW g, NEW n \in Nat, NEW c, NEW text, Longer(h, g, n, c, text),
           NEW S, NEW s, StaticRight(h, S, s, n),
           text \notin {LeftBrace, RightBrace}, LevelIn(g, c, n + 1) <= 0
    PROVE  StaticRight(g, S, Append(s, n + 1), n + 1)
<1>1. /\ OutsideIn(g, n + 1) = OutsideIn(h, n) \cup {n + 1} /\ OutsideIn(h, n) \subseteq 1 .. n
      /\ ~OpensAt(g, n + 1)
      /\ \A i \in 1 .. n : OpensAt(g, i) <=> OpensAt(h, i)
  <2>1. OutsideIn(g, n + 1) = OutsideIn(h, n) \cup {n + 1} /\ OutsideIn(h, n) \subseteq 1 .. n
    BY LongerOutside
  <2>2. text # LeftBrace
    OBVIOUS
  <2>3. ~OpensAt(g, n + 1)
    BY <2>2 DEF OpensAt, Longer
  <2>4. \A i \in 1 .. n : OpensAt(g, i) <=> OpensAt(h, i)
    BY LongerOutside
  <2> QED BY <2>1, <2>3, <2>4
<1>2. BlocksFine(S, n + 1)
  BY LaterFine DEF StaticRight
<1>3. /\ Positions(s) \subseteq 1 .. n
      /\ \A b \in StaticOf(S) : Positions(S[b].commands) \subseteq 1 .. n
  BY RightPositions
<1>4. Divides(S, Append(s, n + 1), OutsideIn(g, n + 1))
  BY <1>1, GrownDivides DEF StaticRight
<1>5. Positions(Append(s, n + 1)) = Positions(s) \cup {n + 1}
  BY AppendPositions DEF StaticRight, Divides
<1>6. ASSUME NEW j \in Positions(s) \cup {n + 1}, NEW i \in j .. n + 1 PROVE ~OpensAt(g, i)
  <2>1. CASE i = n + 1
    BY <1>1, <2>1
  <2>2. CASE i # n + 1
    <3>1. j \in Positions(s) /\ j \in 1 .. n
      BY <1>3, <2>2
    <3>2. i \in 1 .. n /\ i \in j .. n
      BY <2>2, <3>1
    <3> QED BY <1>1, <3>1, <3>2 DEF StaticRight, NoneOpens
  <2> QED BY <2>1, <2>2
<1>7. ASSUME NEW b \in StaticOf(S), NEW j \in Positions(S[b].commands),
             NEW k \in Positions(S[b].commands), NEW i \in j .. k
      PROVE  ~OpensAt(g, i)
  <2>1. j \in 1 .. n /\ k \in 1 .. n
    BY <1>3
  <2>2. i \in 1 .. n
    BY <2>1
  <2> QED BY <1>1, <2>2 DEF StaticRight, NoneOpens
<1>8. NoneOpens(g, S, Append(s, n + 1), n + 1)
  BY <1>5, <1>6, <1>7 DEF NoneOpens
<1> QED BY <1>2, <1>4, <1>8 DEF StaticRight

(* The static block handed over, and a dynamic one.                        *)
LEMMA HandedRight ==
    ASSUME NEW h, NEW n \in Nat, NEW S, NEW s, StaticRight(h, S, s, n),
           s # <<>>, Len(s) = 1 \/ Len(s) <= Bulk
    PROVE  StaticRight(h, Append(S, [kind |-> "static", commands |-> s]), <<>>, n)
<1> DEFINE r == [kind |-> "static", commands |-> s]
<1>1. r \in Blocks /\ r.kind = "static" /\ r.commands = s
  BY DEF Blocks, StaticRight, Divides
<1> HIDE DEF r
<1>2. S \in Seq(Blocks) /\ Positions(s) \subseteq 1 .. n
  BY RightPositions DEF StaticRight, BlocksFine
<1>3. BlocksFine(Append(S, r), n)
  BY <1>1, <1>2, PushedFine DEF StaticRight
<1>4. Divides(Append(S, r), <<>>, OutsideIn(h, n))
  BY <1>1, <1>2, HandedDivides DEF StaticRight
<1>5. NoneOpens(h, Append(S, r), <<>>, n)
  <2> DEFINE T == Append(S, r)
             p == Len(S) + 1
  <2>1. StaticOf(T) = StaticOf(S) \cup {p} /\ T[p] = r /\ \A b \in StaticOf(S) : T[b] = S[b]
    BY <1>1, <1>2, PushedBlock
  <2> HIDE DEF T, p
  <2>2. \A j \in Positions(s) : \A k \in Positions(s) : \A i \in j .. k : i \in j .. n
    BY <1>2
  <2>3. \A b \in StaticOf(T) : \A j, k \in Positions(T[b].commands) :
          \A i \in j .. k : ~OpensAt(h, i)
    BY <1>1, <2>1, <2>2 DEF StaticRight, NoneOpens
  <2> QED BY <2>3, EmptyOrder DEF NoneOpens, T
<1> QED BY <1>3, <1>4, <1>5 DEF StaticRight, r

(* A dynamic block handed over is nothing to the static ones.              *)
LEMMA DynamicRight ==
    ASSUME NEW h, NEW n \in Nat, NEW S, NEW s, StaticRight(h, S, s, n),
           NEW d \in Seq(Nat), d # <<>>, Positions(d) \subseteq 1 .. n
    PROVE  StaticRight(h, Append(S, [kind |-> "dynamic", commands |-> d]), s, n)
<1> DEFINE r == [kind |-> "dynamic", commands |-> d]
<1>1. r \in Blocks /\ r.kind = "dynamic" /\ r.kind # "static" /\ r.commands = d
  BY DEF Blocks
<1> HIDE DEF r
<1>2. S \in Seq(Blocks)
  BY DEF StaticRight, BlocksFine
<1>3. BlocksFine(Append(S, r), n)
  BY <1>1, <1>2, PushedFine DEF StaticRight
<1>4. Divides(Append(S, r), s, OutsideIn(h, n))
  BY <1>1, <1>2, DynamicDivides DEF StaticRight
<1>5. NoneOpens(h, Append(S, r), s, n)
  <2> DEFINE T == Append(S, r)
  <2>1. StaticOf(T) = StaticOf(S) /\ \A b \in StaticOf(S) : T[b] = S[b]
    BY <1>1, <1>2, PushedBlock
  <2> HIDE DEF T
  <2> QED BY <2>1 DEF StaticRight, NoneOpens, T
<1> QED BY <1>3, <1>4, <1>5 DEF StaticRight, r

(* Nothing handled, nothing handed over.                                   *)
LEMMA StaticInit == Init => StaticInv
<1> SUFFICES ASSUME Init PROVE StaticInv
  OBVIOUS
<1>1. submitted = <<>> /\ static = <<>> /\ handled = <<>> /\ Len(handled) = 0 /\ Len(submitted) = 0
  BY DEF Init, WorkersInit
<1>2. BlocksFine(<<>>, 0) /\ StaticOf(<<>>) = {} /\ OutsideIn(<<>>, 0) = {}
  <2>1. <<>> \in Seq(Blocks) /\ 1 .. Len(<<>>) = {} /\ 1 .. 0 = {}
    OBVIOUS
  <2> QED BY <2>1 DEF BlocksFine, StaticOf, OutsideIn
<1>3. Divides(<<>>, <<>>, {})
  BY <1>2, EmptyOrder DEF Divides
<1>4. NoneOpens(<<>>, <<>>, <<>>, 0)
  BY <1>2, EmptyOrder DEF NoneOpens
<1> QED BY <1>1, <1>2, <1>3, <1>4 DEF StaticInv

(* A block that is full, or handed over before it is.                      *)
LEMMA NotTooLong ==
    ASSUME NEW s \in Seq(Nat), s = <<>> \/ Len(s) < Bulk, NEW e \in Nat
    PROVE  /\ s # <<>> => Len(s) = 1 \/ Len(s) <= Bulk
           /\ Len(Append(s, e)) = 1 \/ Len(Append(s, e)) <= Bulk
<1>1. Len(s) \in Nat /\ Len(Append(s, e)) = Len(s) + 1 /\ Bulk \in Nat
  BY AppendIs, LenProperties, EndingsAssumption
<1>2. s = <<>> => Len(s) = 0
  OBVIOUS
<1>3. CASE s = <<>>
  BY <1>1, <1>2, <1>3
<1>4. CASE Len(s) < Bulk
  BY <1>1, <1>4
<1> QED BY <1>3, <1>4

(* The static block handed over, unless it is empty.                       *)
LEMMA FlushRight ==
    ASSUME NEW h, NEW n \in Nat, StaticRight(h, submitted, static, n),
           static = <<>> \/ Len(static) < Bulk, Pushed("static", static)
    PROVE  StaticRight(h, submitted', <<>>, n)
<1>1. CASE static = <<>>
  BY <1>1 DEF Pushed
<1>2. CASE static # <<>>
  <2>1. Len(static) = 1 \/ Len(static) <= Bulk
    <3>1. static \in Seq(Nat) /\ 0 \in Nat
      BY DEF StaticRight, Divides
    <3> QED BY <1>2, <3>1, NotTooLong
  <2>2. submitted' = Append(submitted, [kind |-> "static", commands |-> static])
    BY <1>2 DEF Pushed
  <2> QED BY <1>2, <2>1, <2>2, HandedRight
<1> QED BY <1>1, <1>2

(* A line, kind by kind.                                                   *)
LEMMA StaticOfLine ==
    ASSUME LinesInv, NestInv, StaticInv, NEW c \in Connections, NEW text \in STRING,
           LineEffect(c, text)
    PROVE  StaticInv'
<1> DEFINE n == Len(handled)
           level == LevelIn(handled', c, n + 1)
<1>1. handled' = Append(handled, [conn |-> c, text |-> text])
  BY DEF LineEffect
<1>2. n \in Nat /\ Len(handled') = n + 1 /\ Longer(handled, handled', n, c, text)
  BY <1>1, OneLineMore
<1>3. /\ nesting[c] \in Int /\ dynamic[c] \in Seq(Nat)
      /\ text = LeftBrace => level = nesting[c] + 1
      /\ text \notin {LeftBrace, RightBrace} => level = nesting[c]
  BY <1>1, LineLevels
<1> HIDE DEF level
<1>4. /\ StaticRight(handled, submitted, static, n) /\ static \in Seq(Nat)
      /\ static = <<>> \/ Len(static) < Bulk
  BY DEF StaticInv, StaticRight, Divides
<1>5. SUFFICES StaticRight(handled', submitted', static', n + 1)
               /\ (static' = <<>> \/ Len(static') < Bulk)
  BY <1>2 DEF StaticInv, StaticRight
<1>6. CASE OpensOuter(c, text)
  <2>1. text \in {LeftBrace, RightBrace} /\ static' = <<>> /\ Pushed("static", static)
    BY <1>6 DEF OpensOuter
  <2>2. StaticRight(handled, submitted', <<>>, n)
    BY <1>2, <1>4, <2>1, FlushRight
  <2>3. StaticRight(handled', submitted', <<>>, n + 1)
    BY <1>2, <2>1, <2>2, StaysRight
  <2> QED BY <2>1, <2>3
<1>7. CASE OpensInner(c, text)
  <2>1. /\ text = LeftBrace /\ text \in {LeftBrace, RightBrace} /\ nesting[c] # 0
        /\ UNCHANGED <<submitted, static>>
    BY <1>7 DEF OpensInner
  <2>2. ~(level = 1)
    BY <1>3, <2>1
  <2>3. StaticRight(handled', submitted, static, n + 1)
    BY <1>2, <1>4, <2>1, <2>2, StaysRight DEF level
  <2> QED BY <1>4, <2>1, <2>3
<1>8. CASE ClosesInner(c, text)
  <2>1. /\ text \in {LeftBrace, RightBrace} /\ text # LeftBrace
        /\ UNCHANGED <<submitted, static>>
    BY <1>8, BracesDiffer DEF ClosesInner
  <2>3. StaticRight(handled', submitted, static, n + 1)
    BY <1>2, <1>4, <2>1, StaysRight
  <2> QED BY <1>4, <2>1, <2>3
<1>9. CASE ClosesOuter(c, text)
  <2>1. /\ text \in {LeftBrace, RightBrace} /\ text # LeftBrace
        /\ UNCHANGED static /\ Pushed("dynamic", dynamic[c])
    BY <1>9, BracesDiffer DEF ClosesOuter
  <2>2. StaticRight(handled, submitted', static, n)
    <3>1. CASE dynamic[c] = <<>>
      BY <1>4, <2>1, <3>1 DEF Pushed
    <3>2. CASE dynamic[c] # <<>>
      <4>1. submitted' = Append(submitted, [kind |-> "dynamic", commands |-> dynamic[c]])
        BY <2>1, <3>2 DEF Pushed
      <4>2. Positions(dynamic[c]) \subseteq 1 .. n
        BY DynamicRange DEF Positions
      <4> QED BY <1>2, <1>3, <1>4, <3>2, <4>1, <4>2, DynamicRight
    <3> QED BY <3>1, <3>2
  <2>3. StaticRight(handled', submitted', static, n + 1)
    BY <1>2, <2>1, <2>2, StaysRight
  <2> QED BY <1>4, <2>1, <2>3
<1>10. CASE AddsDynamic(c, text)
  <2>1. /\ text \notin {LeftBrace, RightBrace} /\ text # LeftBrace /\ nesting[c] > 0
        /\ UNCHANGED <<submitted, static>>
    BY <1>10 DEF AddsDynamic
  <2>2. ~(level <= 0)
    BY <1>3, <2>1
  <2>3. StaticRight(handled', submitted, static, n + 1)
    BY <1>2, <1>4, <2>1, <2>2, StaysRight DEF level
  <2> QED BY <1>4, <2>1, <2>3
<1>11. ASSUME text \notin {LeftBrace, RightBrace}, nesting[c] <= 0
       PROVE  StaticRight(handled', submitted, Append(static, n + 1), n + 1)
  <2>1. level <= 0
    BY <1>3, <1>11
  <2> QED BY <1>2, <1>4, <1>11, <2>1, GrowsRight DEF level
<1>12. CASE FillsStatic(c, text)
  <2>1. /\ StaticRight(handled', submitted, Append(static, n + 1), n + 1)
        /\ static' = <<>> /\ Pushed("static", Append(static, n + 1))
    BY <1>2, <1>11, <1>12 DEF FillsStatic
  <2>2. /\ Append(static, n + 1) # <<>>
        /\ Len(Append(static, n + 1)) = 1 \/ Len(Append(static, n + 1)) <= Bulk
    BY <1>2, <1>4, AppendIs, NotTooLong
  <2>3. submitted' = Append(submitted, [kind |-> "static", commands |-> Append(static, n + 1)])
    BY <2>1, <2>2 DEF Pushed
  <2> DEFINE full == Append(static, n + 1)
  <2> HIDE DEF full
  <2>4. n + 1 \in Nat
    BY <1>2
  <2>5. StaticRight(handled', submitted', <<>>, n + 1)
    BY <2>1, <2>2, <2>3, <2>4, HandedRight
  <2> QED BY <2>1, <2>5
<1>13. CASE AddsStatic(c, text)
  <2>1. /\ StaticRight(handled', submitted, Append(static, n + 1), n + 1)
        /\ static' = Append(static, n + 1) /\ UNCHANGED submitted /\ Len(static) + 1 < Bulk
    BY <1>2, <1>11, <1>13 DEF AddsStatic
  <2>2. Len(Append(static, n + 1)) = Len(static) + 1
    BY <1>2, <1>4, AppendIs
  <2> QED BY <2>1, <2>2
<1> QED BY <1>6, <1>7, <1>8, <1>9, <1>10, <1>12, <1>13 DEF LineEffect

(* Every step keeps the static blocks right.                               *)
LEMMA StaticStep == LinesInv /\ NestInv /\ StaticInv /\ [Next]_vars => StaticInv'
<1> SUFFICES ASSUME LinesInv, NestInv, StaticInv, [Next]_vars PROVE StaticInv'
  OBVIOUS
<1>1. ASSUME UNCHANGED <<submitted, static, handled>> PROVE StaticInv'
  BY <1>1 DEF StaticInv
<1>2. CASE UNCHANGED blockVars
  BY <1>1, <1>2 DEF blockVars
<1>3. ASSUME NEW c \in Connections, NewContext(c) PROVE StaticInv'
  BY <1>1, <1>3 DEF NewContext
<1>4. CASE Flush
  <2>1. /\ Len(handled) \in Nat /\ UNCHANGED handled /\ static' = <<>>
        /\ Pushed("static", static)
    BY <1>4, LenProperties DEF Flush, LinesInv
  <2>2. /\ StaticRight(handled, submitted, static, Len(handled))
        /\ static = <<>> \/ Len(static) < Bulk
    BY DEF StaticInv, StaticRight
  <2>3. StaticRight(handled, submitted', <<>>, Len(handled))
    BY <2>1, <2>2, FlushRight
  <2> QED BY <2>1, <2>3 DEF StaticInv, StaticRight
<1> QED BY <1>2, <1>3, <1>4, StepEffect, StaticOfLine

(* Lines, levels and static blocks together are an invariant.              *)
LEMMA BlocksInvariant == Spec => [](LinesInv /\ NestInv /\ StaticInv)
<1>1. Spec => []SessionsInv
  BY HandlersInvariant, PTL
<1> QED BY <1>1, LinesInit, NestInit, StaticInit, LinesStep, NestStep, StaticStep, PTL DEF Spec

(* A sequence, by what is in it.                                           *)
LEMMA OfPositions ==
    ASSUME NEW s \in Seq(Nat)
    PROVE  /\ ToSet(s) = Positions(s)
           /\ \A T : Positions(s) \subseteq T => s \in Seq(T)
<1>1. ToSet(s) = Positions(s)
  BY InToSet DEF Positions
<1>2. ASSUME NEW T, Positions(s) \subseteq T PROVE s \in Seq(T)
  <2>1. \A i \in 1 .. Len(s) : s[i] \in T
    BY <1>2 DEF Positions
  <2>2. Len(s) \in Nat /\ s = [i \in 1 .. Len(s) |-> s[i]]
    BY LenProperties
  <2> QED BY <2>1, <2>2, IsASeq
<1> QED BY <1>1, <1>2

(* The blocks handed over and those being formed are of lines handled.     *)
LEMMA BlockTypes ==
    ASSUME LinesInv, NestInv, StaticInv
    PROVE  /\ \A i \in 1 .. Len(submitted) : submitted[i].commands \in Numbers \ {<<>>}
           /\ static \in Numbers
           /\ nesting \in [Connections -> Int]
           /\ dynamic \in [Connections -> Numbers]
<1>1. ASSUME NEW i \in 1 .. Len(submitted)
      PROVE  submitted[i].commands \in Numbers \ {<<>>}
  <2>1. submitted \in Seq(Blocks)
    BY DEF StaticInv, BlocksFine
  <2>2. submitted[i] \in Blocks
    BY <2>1, ElementOfSeq
  <2>3. submitted[i].commands \in Seq(Nat)
    BY <2>2 DEF Blocks
  <2>4. /\ Positions(submitted[i].commands) \subseteq 1 .. Len(handled)
        /\ submitted[i].commands # <<>>
    BY DEF StaticInv, BlocksFine
  <2> QED BY <2>3, <2>4, OfPositions DEF Numbers
<1>2. static \in Numbers
  <2>1. StaticRight(handled, submitted, static, Len(handled)) /\ Len(handled) \in Nat
    BY LenProperties DEF StaticInv, StaticRight, LinesInv
  <2>2. Positions(static) \subseteq 1 .. Len(handled) /\ static \in Seq(Nat)
    BY <2>1, RightPositions DEF StaticRight, Divides
  <2> QED BY <2>2, OfPositions DEF Numbers
<1>3. ASSUME NEW c \in Connections PROVE dynamic[c] \in Numbers
  <2>1. dynamic[c] \in Seq(Nat)
    BY DEF NestInv
  <2>2. Positions(dynamic[c]) \subseteq 1 .. Len(handled)
    BY DynamicRange DEF Positions
  <2> QED BY <2>1, <2>2, OfPositions DEF Numbers
<1> QED BY <1>1, <1>2, <1>3 DEF NestInv

FlagsOK == threads_initialized \in BOOLEAN /\ shared \in BOOLEAN /\ stopped \in BOOLEAN

(* The flags are only set, cleared and left alone.                         *)
LEMMA FlagsStep == FlagsOK /\ [Next]_vars => FlagsOK'
<1> SUFFICES ASSUME FlagsOK, [Next]_vars PROVE FlagsOK'
  OBVIOUS
<1>1. ASSUME UNCHANGED <<threads_initialized, shared, stopped>> PROVE FlagsOK'
  BY <1>1 DEF FlagsOK
<1>2. ASSUME NEW c \in Connections, Client(c) PROVE FlagsOK'
  BY <1>1, <1>2 DEF Client, ClientConnect, ClientCloses, ConnectionBreaks, asyncVars
<1>3. ASSUME NEW c \in Connections, Handler(c) PROVE FlagsOK'
  BY <1>1, <1>3 DEF Handler, Accept, HandleLine, HandleEof, HandleError, process_command,
                    asyncVars, FlagsOK
<1>4. ASSUME NEW c \in Connections, Disconnect(c) \/ RemoveSession(c) PROVE FlagsOK'
  BY <1>4 DEF Disconnect, RemoveSession, asyncVars, FlagsOK
<1>5. ASSUME NEW w \in Workers, Start(w) \/ JoinNext(w) \/ Worker(w) \/ Wakeup(w) PROVE FlagsOK'
  BY <1>1, <1>5 DEF Start, JoinNext, Worker, Wakeup, asyncVars
<1>6. CASE Notify \/ Terminate \/ Wake \/ Reset \/ Stop
  BY <1>6 DEF Notify, Terminate, Wake, Reset, Stop, asyncVars, FlagsOK
<1>7. CASE UNCHANGED vars
  BY <1>1, <1>7 DEF vars
<1> QED BY <1>2, <1>3, <1>4, <1>5, <1>6, <1>7 DEF Next, Step

(***************************************************************************)
(* The types of the server: a session is kept just while it is open or has *)
(* failed, its context as long as the handlers need it, and the manager as *)
(* long as there is a context.                                             *)
(***************************************************************************)
THEOREM ServerTypeCorrect == Spec => []TypeOK
<1>1. TypesOK /\ FlagsOK /\ SessionsInv /\ StageInv /\ LinesInv /\ NestInv /\ StaticInv
        => TypeOK
  <2> SUFFICES ASSUME TypesOK, FlagsOK, SessionsInv, StageInv, LinesInv, NestInv, StaticInv
               PROVE  TypeOK
    OBVIOUS
  <2>1. /\ phase \in [Connections -> Phase] /\ IsInjective(sessions_)
        /\ ToSet(sessions_) = {c \in Connections : phase[c] \in {"open", "failed"}}
    BY DEF SessionsInv, Kept
  <2>2. /\ contexts \subseteq ToSet(sessions_)
        /\ contexts # {} => shared /\ threads_initialized
    BY <2>1 DEF StageInv, Resting, Notifying, Starting, Ending, Removing, Stopping, Managed, Kept
  <2>3. todo = <<>> => contexts = ToSet(sessions_)
    BY <2>1, StageOfStep DEF Resting, Kept
  <2> QED BY <2>1, <2>2, <2>3, BlockTypes DEF TypeOK, TypesOK, FlagsOK
<1>2. Init => FlagsOK
  BY DEF Init, FlagsOK
<1> QED BY <1>1, <1>2, FlagsStep, HandlersInvariant, BlocksInvariant, PTL DEF Spec

(* What the properties speak of, in the words of the invariant.            *)
LEMMA StaticBlocks ==
    ASSUME StaticInv
    PROVE  /\ BlocksOf("static") = StaticOf(submitted)
           /\ \A b \in BlocksOf("static") :
                 /\ b \in 1 .. Len(submitted) /\ Commands(b) \in Seq(Nat)
                 /\ ToSet(Commands(b)) = Positions(submitted[b].commands)
<1>1. submitted \in Seq(Blocks)
  BY DEF StaticInv, BlocksFine
<1>2. BlocksOf("static") = StaticOf(submitted)
  BY DEF BlocksOf, StaticOf
<1>3. ASSUME NEW b \in BlocksOf("static")
      PROVE  /\ b \in 1 .. Len(submitted) /\ Commands(b) \in Seq(Nat)
             /\ ToSet(Commands(b)) = Positions(submitted[b].commands)
  <2>1. b \in 1 .. Len(submitted)
    BY DEF BlocksOf
  <2>2. submitted[b] \in Blocks
    BY <1>1, <2>1, ElementOfSeq
  <2>3. submitted[b].commands \in Seq(Nat)
    BY <2>2 DEF Blocks
  <2> QED BY <2>1, <2>3, OfPositions DEF Commands
<1> QED BY <1>2, <1>3

(***************************************************************************)
(* The static blocks handed over, and then the unfinished one, hold every  *)
(* command outside braces of any connection, once, in the order handled,   *)
(* and none is too long.                                                   *)
(***************************************************************************)
THEOREM CommandsStayInOrder == Spec => []StaticBlocksInOrder
<1>1. StaticInv => StaticBlocksInOrder
  <2> SUFFICES ASSUME StaticInv PROVE StaticBlocksInOrder
    OBVIOUS
  <2> DEFINE blocks == BlocksOf("static")
             out == {i \in 1 .. Len(handled) : IsCommand(i) /\ Level(i) <= 0}
  <2>1. /\ Divides(submitted, static, OutsideIn(handled, Len(handled)))
        /\ blocks = StaticOf(submitted) /\ \A b : Commands(b) = submitted[b].commands
    BY StaticBlocks DEF StaticInv, Commands
  <2>2. out = OutsideIn(handled, Len(handled))
    BY OfHistory DEF OutsideIn
  <2>3. /\ \A b \in blocks : Increasing(Commands(b)) /\ Before(Commands(b), static)
        /\ \A a, b \in blocks : a < b => Before(Commands(a), Commands(b))
        /\ Increasing(static)
    BY <2>1 DEF Divides
  <2>4. (UNION {ToSet(Commands(b)) : b \in blocks}) \cup ToSet(static) = out
    <3>1. ToSet(static) = Positions(static)
      BY <2>1, OfPositions DEF Divides
    <3>2. \A b \in blocks : ToSet(Commands(b)) = Positions(submitted[b].commands)
      BY StaticBlocks
    <3>3. \A x : x \in out <=> \/ x \in Positions(static)
                               \/ \E b \in blocks : x \in Positions(submitted[b].commands)
      BY <2>1, <2>2 DEF Divides
    <3> HIDE DEF blocks, out
    <3> QED BY <3>1, <3>2, <3>3
  <2>5. \A b \in blocks : Len(Commands(b)) = 1 \/ Len(Commands(b)) <= Bulk
    BY DEF StaticInv, BlocksFine, BlocksOf, Commands
  <2> QED BY <2>3, <2>4, <2>5 DEF StaticBlocksInOrder
<1> QED BY <1>1, BlocksInvariant, PTL

(***************************************************************************)
(* No connection begins a dynamic block between two commands of a static   *)
(* one.                                                                    *)
(***************************************************************************)
THEOREM BracesEndBlocks == Spec => []BraceEndsStaticBlock
<1>1. StaticInv => BraceEndsStaticBlock
  <2> SUFFICES ASSUME StaticInv, NEW b \in BlocksOf("static"),
                      NEW j \in 1 .. Len(Commands(b)), NEW k \in 1 .. Len(Commands(b)),
                      NEW i \in Commands(b)[j] .. Commands(b)[k], handled[i].text = LeftBrace
               PROVE  Level(i) # 1
    BY DEF BraceEndsStaticBlock
  <2>1. b \in StaticOf(submitted) /\ Commands(b) = submitted[b].commands
    BY StaticBlocks DEF Commands
  <2>2. /\ Commands(b)[j] \in Positions(submitted[b].commands)
        /\ Commands(b)[k] \in Positions(submitted[b].commands)
    BY <2>1 DEF Positions
  <2>3. ~OpensAt(handled, i)
    BY <2>1, <2>2 DEF StaticInv, NoneOpens
  <2> QED BY <2>3, OfHistory DEF OpensAt
<1> QED BY <1>1, BlocksInvariant, PTL

-----------------------------------------------------------------------------
(***************************************************************************)
(*                          The dynamic blocks                             *)
(***************************************************************************)

DynamicOf(S) == {b \in 1 .. Len(S) : S[b].kind = "dynamic"}

(* What a line that closes a dynamic block closes, and the lines that do.  *)
Closes(h, i) == EnclosedIn(h, h[i].conn, i - 1)
ClosersIn(h, n) ==
    {i \in 1 .. n : h[i].text = RightBrace /\ LevelAt(h, i) = 0 /\ Closes(h, i) # {}}

(* The dynamic blocks of S are, in order, what those lines close.          *)
WholeIn(h, S, n) ==
    /\ \A b \in DynamicOf(S) :
          /\ Increasing(S[b].commands)
          /\ \E i \in ClosersIn(h, n) : Positions(S[b].commands) = Closes(h, i)
    /\ \A i \in ClosersIn(h, n) : \E b \in DynamicOf(S) : Positions(S[b].commands) = Closes(h, i)
    /\ \A a, b \in DynamicOf(S) : \A i, j \in ClosersIn(h, n) :
          /\ a < b
          /\ Positions(S[a].commands) = Closes(h, i) /\ Positions(S[b].commands) = Closes(h, j)
          => i < j

WholeInv == WholeIn(handled, submitted, Len(handled))

(* No two lines close the same commands: the earlier one lies outside      *)
(* braces, so the later one closes none of those before it.                *)
LEMMA ClosersApart ==
    ASSUME NEW h, NEW n \in Nat
    PROVE  \A i, j \in ClosersIn(h, n) : Closes(h, i) = Closes(h, j) => i = j
<1>1. ASSUME NEW i \in ClosersIn(h, n), NEW j \in ClosersIn(h, n), i < j,
             Closes(h, i) = Closes(h, j)
      PROVE  FALSE
  <2>1. /\ i \in 1 .. n /\ j \in 1 .. n /\ LevelAt(h, i) = 0 /\ Closes(h, i) # {}
    BY DEF ClosersIn
  <2>2. i - 1 \in Nat /\ j - 1 \in Nat /\ i \in 1 .. j - 1 /\ LevelAt(h, i) <= 0
    BY <1>1, <2>1
  <2>3. PICK x : x \in EnclosedIn(h, h[i].conn, i - 1)
    BY <2>1 DEF Closes
  <2>4. x \in EnclosedIn(h, h[j].conn, j - 1)
    BY <1>1, <2>3 DEF Closes
  <2>5. x \in 1 .. i - 1 /\ h[x].conn = h[i].conn /\ h[x].conn = h[j].conn
    BY <2>2, <2>3, <2>4, EnclosedRange
  <2>6. i \in LinesIn(h, h[j].conn, j - 1)
    BY <2>2, <2>5 DEF LinesIn
  <2>7. i < x
    BY <2>2, <2>4, <2>6 DEF EnclosedIn
  <2> QED BY <2>1, <2>5, <2>7
<1>2. \A i \in ClosersIn(h, n) : i \in Nat
  BY DEF ClosersIn
<1>3. SUFFICES ASSUME NEW i \in ClosersIn(h, n), NEW j \in ClosersIn(h, n),
                      Closes(h, i) = Closes(h, j)
               PROVE  i = j
  OBVIOUS
<1>4. ~(i < j) /\ ~(j < i)
  BY <1>1, <1>3
<1> QED BY <1>2, <1>4

(* What lines close stays the same when there is one more, which closes    *)
(* what its connection has enclosed.                                       *)
LEMMA SameCloses ==
    ASSUME NEW h, NEW g, NEW n \in Nat, NEW c, NEW text, Longer(h, g, n, c, text)
    PROVE  \A i \in 1 .. n : Closes(g, i) = Closes(h, i)
<1>1. \A i \in 1 .. n : g[i] = h[i]
  BY DEF Longer
<1>2. \A d : \A m \in 0 .. n : EnclosedIn(g, d, m) = EnclosedIn(h, d, m)
  BY <1>1, SamePrefix
<1>3. \A i \in 1 .. n : i - 1 \in 0 .. n
  OBVIOUS
<1> QED BY <1>1, <1>2, <1>3 DEF Closes

(* What the line more could close.                                         *)
LEMMA NextCloses ==
    ASSUME NEW h, NEW g, NEW n \in Nat, NEW c, NEW text, Longer(h, g, n, c, text),
           NEW p, p = n + 1
    PROVE  Closes(g, p) = EnclosedIn(h, c, n)
<1>1. \A i \in 1 .. n : g[i] = h[i]
  BY DEF Longer
<1>2. \A d : \A m \in 0 .. n : EnclosedIn(g, d, m) = EnclosedIn(h, d, m)
  BY <1>1, SamePrefix
<1>3. n \in 0 .. n /\ p - 1 = n /\ g[p].conn = c
  BY DEF Longer
<1> QED BY <1>2, <1>3 DEF Closes

(* Whether it does.                                                        *)
LEMMA NextClosers ==
    ASSUME NEW h, NEW g, NEW n \in Nat, NEW c, NEW text, Longer(h, g, n, c, text),
           NEW p, p = n + 1
    PROVE  \A i : i \in ClosersIn(g, p) <=>
                 \/ i \in ClosersIn(h, n)
                 \/ /\ i = p /\ text = RightBrace /\ LevelIn(g, c, p) = 0
                    /\ EnclosedIn(h, c, n) # {}
<1>1. \A i \in 1 .. n : g[i] = h[i]
  BY DEF Longer
<1>2. \A i \in 1 .. n : LevelAt(g, i) = LevelAt(h, i)
  BY <1>1, SamePrefix
<1>3. \A i \in 1 .. n : Closes(g, i) = Closes(h, i)
  BY SameCloses
<1>4. Closes(g, p) = EnclosedIn(h, c, n)
  BY NextCloses
<1>5. LevelAt(g, p) = LevelIn(g, c, p) /\ g[p].text = text
  BY DEF Longer, LevelAt
<1>6. 1 .. p = (1 .. n) \cup {p} /\ p \notin 1 .. n
  OBVIOUS
<1> QED BY <1>1, <1>2, <1>3, <1>4, <1>5, <1>6 DEF ClosersIn

(* One block more, by its kind.                                            *)
LEMMA PushedDynamic ==
    ASSUME NEW S \in Seq(Blocks), NEW r \in Blocks
    PROVE  /\ \A b \in DynamicOf(S) : b \in 1 .. Len(S) /\ Append(S, r)[b] = S[b]
           /\ r.kind = "dynamic" => DynamicOf(Append(S, r)) = DynamicOf(S) \cup {Len(S) + 1}
           /\ r.kind # "dynamic" => DynamicOf(Append(S, r)) = DynamicOf(S)
<1>1. /\ Append(S, r) \in Seq(Blocks) /\ Len(S) \in Nat /\ Len(Append(S, r)) = Len(S) + 1
      /\ \A b \in 1 .. Len(S) : Append(S, r)[b] = S[b]
      /\ Append(S, r)[Len(S) + 1] = r
  BY PushedBlock
<1> DEFINE T == Append(S, r)
<1> HIDE DEF T
<1>2. \A b : b \in DynamicOf(T) <=> b \in DynamicOf(S) \/ (b = Len(S) + 1 /\ r.kind = "dynamic")
  <2>1. /\ T[Len(S) + 1] = r /\ \A b \in 1 .. Len(S) : T[b] = S[b]
        /\ 1 .. Len(T) = (1 .. Len(S)) \cup {Len(S) + 1} /\ Len(S) + 1 \notin 1 .. Len(S)
    BY <1>1 DEF T
  <2> QED BY <2>1 DEF DynamicOf
<1>3. \A b \in DynamicOf(S) : b \in 1 .. Len(S)
  BY DEF DynamicOf
<1> QED BY <1>1, <1>2, <1>3 DEF T

(* A static block more, and a line that closes nothing.                    *)
LEMMA StaticWhole ==
    ASSUME NEW h, NEW n, NEW S \in Seq(Blocks), WholeIn(h, S, n), NEW r \in Blocks,
           r.kind = "static"
    PROVE  WholeIn(h, Append(S, r), n)
<1> DEFINE T == Append(S, r)
<1>1. DynamicOf(T) = DynamicOf(S) /\ \A b \in DynamicOf(S) : T[b] = S[b]
  BY PushedDynamic
<1> HIDE DEF T
<1> QED BY <1>1 DEF WholeIn, T

(* A line that closes nothing.                                             *)
LEMMA StaysWhole ==
    ASSUME NEW h, NEW g, NEW n \in Nat, NEW c, NEW text, Longer(h, g, n, c, text),
           NEW S, WholeIn(h, S, n),
           ~(text = RightBrace /\ LevelIn(g, c, n + 1) = 0 /\ EnclosedIn(h, c, n) # {})
    PROVE  WholeIn(g, S, n + 1)
<1> DEFINE p == n + 1
<1>0. p = n + 1
  OBVIOUS
<1>1. ~(text = RightBrace /\ LevelIn(g, c, p) = 0 /\ EnclosedIn(h, c, n) # {})
  BY <1>0
<1> HIDE DEF p
<1>2. \A i : i \in ClosersIn(g, p) <=> i \in ClosersIn(h, n)
  BY <1>0, <1>1, NextClosers
<1>3. \A i \in ClosersIn(h, n) : Closes(g, i) = Closes(h, i)
  BY SameCloses DEF ClosersIn
<1> QED BY <1>2, <1>3 DEF WholeIn, p

(* A line that closes a dynamic block, which is handed over.               *)
LEMMA ClosedWhole ==
    ASSUME NEW h, NEW g, NEW n \in Nat, NEW c, NEW text, Longer(h, g, n, c, text),
           NEW S \in Seq(Blocks), WholeIn(h, S, n),
           text = RightBrace, LevelIn(g, c, n + 1) = 0, EnclosedIn(h, c, n) # {},
           NEW r \in Blocks, r.kind = "dynamic", Increasing(r.commands),
           Positions(r.commands) = EnclosedIn(h, c, n)
    PROVE  WholeIn(g, Append(S, r), n + 1)
<1> DEFINE T == Append(S, r)
           p == n + 1
           l == Len(S) + 1
           Of(b, i) == Positions(T[b].commands) = Closes(g, i)
<1>1. /\ DynamicOf(T) = DynamicOf(S) \cup {l} /\ T[l] = r
      /\ \A b \in DynamicOf(S) : T[b] = S[b] /\ b < l /\ ~(l < b)
      /\ ~(l < l)
  <2>1. /\ Len(S) \in Nat /\ Append(S, r)[Len(S) + 1] = r
        /\ DynamicOf(Append(S, r)) = DynamicOf(S) \cup {Len(S) + 1}
        /\ \A b \in DynamicOf(S) : b \in 1 .. Len(S) /\ Append(S, r)[b] = S[b]
    BY PushedBlock, PushedDynamic
  <2>2. \A b \in DynamicOf(S) : b < Len(S) + 1 /\ ~(Len(S) + 1 < b)
    BY <2>1
  <2> QED BY <2>1, <2>2
<1>2. /\ \A i : i \in ClosersIn(g, p) <=> i \in ClosersIn(h, n) \/ i = p
      /\ Closes(g, p) = EnclosedIn(h, c, n)
      /\ \A i \in ClosersIn(h, n) : Closes(g, i) = Closes(h, i) /\ i < p /\ i # p
  <2>1. p = n + 1 /\ LevelIn(g, c, p) = 0 /\ Longer(h, g, n, c, text)
    OBVIOUS
  <2> HIDE DEF p
  <2>2. \A i : i \in ClosersIn(g, p) <=> i \in ClosersIn(h, n) \/ i = p
    <3>1. \A i : i \in ClosersIn(g, p) <=>
                    \/ i \in ClosersIn(h, n)
                    \/ /\ i = p /\ text = RightBrace /\ LevelIn(g, c, p) = 0
                       /\ EnclosedIn(h, c, n) # {}
      BY ONLY <2>1, NextClosers
    <3> QED BY <2>1, <3>1
  <2>3. Closes(g, p) = EnclosedIn(h, c, n)
    BY <2>1, NextCloses
  <2>4. \A i \in ClosersIn(h, n) : Closes(g, i) = Closes(h, i) /\ i \in 1 .. n
    BY SameCloses DEF ClosersIn
  <2> QED BY <2>1, <2>2, <2>3, <2>4
<1>3. \A i, j \in ClosersIn(g, p) : Closes(g, i) = Closes(g, j) => i = j
  <2>1. p \in Nat
    OBVIOUS
  <2> QED BY <2>1, ClosersApart
<1> HIDE DEF T, p, l
<1>4. Of(l, p) /\ Increasing(T[l].commands)
  BY <1>1, <1>2
<1>5. ASSUME NEW b \in DynamicOf(S)
      PROVE  Increasing(T[b].commands) /\ \E i \in ClosersIn(h, n) : Of(b, i)
  BY <1>1, <1>2 DEF WholeIn
<1>6. ASSUME NEW i \in ClosersIn(h, n) PROVE \E b \in DynamicOf(S) : Of(b, i)
  BY <1>1, <1>2 DEF WholeIn
<1>7. ASSUME NEW b \in DynamicOf(S), NEW i \in ClosersIn(g, p), Of(b, i)
      PROVE  i \in ClosersIn(h, n)
  <2>1. PICK k \in ClosersIn(h, n) : Of(b, k)
    BY <1>5
  <2>2. i = k
    BY <1>2, <1>3, <1>7, <2>1
  <2> QED BY <2>2
<1>8. ASSUME NEW i \in ClosersIn(g, p), Of(l, i) PROVE i = p
  BY <1>2, <1>3, <1>4, <1>8
<1>9. ASSUME NEW a \in DynamicOf(T), NEW b \in DynamicOf(T), NEW i \in ClosersIn(g, p),
             NEW j \in ClosersIn(g, p), a < b, Of(a, i), Of(b, j)
      PROVE  i < j
  <2>1. a \in DynamicOf(S) /\ i \in ClosersIn(h, n)
    BY <1>1, <1>7, <1>9
  <2>2. CASE b = l
    BY <1>2, <1>8, <1>9, <2>1, <2>2
  <2>3. CASE b \in DynamicOf(S)
    <3>1. j \in ClosersIn(h, n)
      BY <1>7, <1>9, <2>3
    <3>2. /\ Positions(S[a].commands) = Closes(h, i)
          /\ Positions(S[b].commands) = Closes(h, j)
      BY <1>1, <1>2, <1>9, <2>1, <2>3, <3>1
    <3> QED BY <1>9, <2>1, <2>3, <3>1, <3>2 DEF WholeIn
  <2> QED BY <1>1, <2>2, <2>3
<1>10. ASSUME NEW b \in DynamicOf(T)
       PROVE  Increasing(T[b].commands) /\ \E i \in ClosersIn(g, p) : Of(b, i)
  BY <1>1, <1>2, <1>4, <1>5
<1>11. ASSUME NEW i \in ClosersIn(g, p) PROVE \E b \in DynamicOf(T) : Of(b, i)
  BY <1>1, <1>2, <1>4, <1>6
<1> QED BY <1>9, <1>10, <1>11 DEF WholeIn, T, p

(* Nothing has been closed at first.                                       *)
LEMMA WholeInit == Init => WholeInv
<1> SUFFICES ASSUME Init PROVE WholeInv
  OBVIOUS
<1>1. Len(submitted) = 0 /\ Len(handled) = 0
  BY DEF Init, WorkersInit
<1>2. DynamicOf(submitted) = {} /\ ClosersIn(handled, Len(handled)) = {}
  BY <1>1 DEF DynamicOf, ClosersIn
<1> QED BY <1>2 DEF WholeInv, WholeIn

(* A static block handed over, or none.                                    *)
LEMMA PushedWhole ==
    ASSUME NEW h, NEW n, submitted \in Seq(Blocks), WholeIn(h, submitted, n),
           NEW s \in Seq(Nat), Pushed("static", s)
    PROVE  WholeIn(h, submitted', n)
<1>1. CASE s = <<>>
  BY <1>1 DEF Pushed
<1>2. CASE s # <<>>
  <2> DEFINE r == [kind |-> "static", commands |-> s]
  <2>1. r \in Blocks /\ r.kind = "static" /\ submitted' = Append(submitted, r)
    BY <1>2 DEF Blocks, Pushed
  <2> HIDE DEF r
  <2> QED BY <2>1, StaticWhole
<1> QED BY <1>1, <1>2

(* A line, kind by kind.                                                   *)
LEMMA WholeOfLine ==
    ASSUME LinesInv, NestInv, StaticInv, WholeInv, NEW c \in Connections, NEW text \in STRING,
           LineEffect(c, text)
    PROVE  WholeInv'
<1> DEFINE n == Len(handled)
           level == LevelIn(handled', c, n + 1)
           enclosed == EnclosedIn(handled, c, n)
           closing == text = RightBrace /\ level = 0 /\ enclosed # {}
<1>1. handled' = Append(handled, [conn |-> c, text |-> text])
  BY DEF LineEffect
<1>2. n \in Nat /\ Len(handled') = n + 1 /\ Longer(handled, handled', n, c, text)
  BY <1>1, OneLineMore
<1>3. /\ nesting[c] \in Int /\ dynamic[c] \in Seq(Nat)
      /\ text = RightBrace => level = nesting[c] - 1
  BY <1>1, LineLevels
<1>4. Increasing(dynamic[c]) /\ Positions(dynamic[c]) = enclosed
  BY DEF NestInv
<1>5. submitted \in Seq(Blocks) /\ static \in Seq(Nat) /\ WholeIn(handled, submitted, n)
  BY DEF StaticInv, BlocksFine, Divides, WholeInv
<1>6. ASSUME ~closing, NEW S, WholeIn(handled, S, n) PROVE WholeIn(handled', S, n + 1)
  BY <1>2, <1>6, StaysWhole
<1>7. SUFFICES WholeIn(handled', submitted', n + 1)
  BY <1>2 DEF WholeInv
<1> HIDE DEF level, enclosed
<1>8. CASE OpensOuter(c, text)
  <2>1. ~closing /\ Pushed("static", static)
    BY <1>8, BracesDiffer DEF OpensOuter
  <2>2. WholeIn(handled, submitted', n)
    BY <1>5, <2>1, PushedWhole
  <2> QED BY <1>6, <2>1, <2>2
<1>9. CASE OpensInner(c, text)
  <2>1. ~closing /\ submitted' = submitted
    BY <1>9, BracesDiffer DEF OpensInner
  <2> QED BY <1>5, <1>6, <2>1
<1>10. CASE ClosesInner(c, text)
  <2>1. text = RightBrace /\ nesting[c] # 1 /\ submitted' = submitted
    BY <1>10 DEF ClosesInner
  <2>2. ~(level = 0)
    BY <1>3, <2>1
  <2> QED BY <1>5, <1>6, <2>1, <2>2
<1>11. CASE ClosesOuter(c, text)
  <2>1. text = RightBrace /\ nesting[c] = 1 /\ Pushed("dynamic", dynamic[c])
    BY <1>11 DEF ClosesOuter
  <2>2. CASE dynamic[c] = <<>>
    <3>1. enclosed = {} /\ submitted' = submitted
      BY <1>4, <2>1, <2>2, EmptyOrder DEF Pushed
    <3> QED BY <1>5, <1>6, <3>1
  <2>3. CASE dynamic[c] # <<>>
    <3> DEFINE r == [kind |-> "dynamic", commands |-> dynamic[c]]
    <3>1. /\ r \in Blocks /\ r.kind = "dynamic" /\ r.commands = dynamic[c]
          /\ submitted' = Append(submitted, r)
      BY <1>3, <2>1, <2>3 DEF Blocks, Pushed
    <3> HIDE DEF r
    <3>2. level = 0
      BY <1>3, <2>1
    <3>3. enclosed # {}
      <4>1. dynamic[c] \in Seq(Nat) /\ Len(dynamic[c]) \in Nat /\ Len(dynamic[c]) # 0
        BY <1>3, <2>3, EmptySeq, LenProperties
      <4>2. 1 \in 1 .. Len(dynamic[c])
        BY <4>1
      <4> QED BY <1>4, <4>2 DEF Positions
    <3> QED BY <1>2, <1>4, <1>5, <2>1, <3>1, <3>2, <3>3, ClosedWhole DEF level, enclosed
  <2> QED BY <2>2, <2>3
<1>12. CASE AddsDynamic(c, text)
  <2>1. text # RightBrace /\ submitted' = submitted
    BY <1>12 DEF AddsDynamic
  <2> QED BY <1>5, <1>6, <2>1
<1>13. CASE FillsStatic(c, text)
  <2>1. text # RightBrace /\ Pushed("static", Append(static, n + 1))
    BY <1>2, <1>13 DEF FillsStatic
  <2>2. Append(static, n + 1) \in Seq(Nat)
    BY <1>2, <1>5, AppendIs
  <2>3. WholeIn(handled, submitted', n)
    BY <1>5, <2>1, <2>2, PushedWhole
  <2> QED BY <1>6, <2>1, <2>3
<1>14. CASE AddsStatic(c, text)
  <2>1. text # RightBrace /\ submitted' = submitted
    BY <1>14 DEF AddsStatic
  <2> QED BY <1>5, <1>6, <2>1
<1> QED BY <1>8, <1>9, <1>10, <1>11, <1>12, <1>13, <1>14 DEF LineEffect

(* Every step keeps the dynamic blocks whole.                              *)
LEMMA WholeStep == LinesInv /\ NestInv /\ StaticInv /\ WholeInv /\ [Next]_vars => WholeInv'
<1> SUFFICES ASSUME LinesInv, NestInv, StaticInv, WholeInv, [Next]_vars PROVE WholeInv'
  OBVIOUS
<1>1. ASSUME UNCHANGED <<submitted, handled>> PROVE WholeInv'
  BY <1>1 DEF WholeInv
<1>2. CASE UNCHANGED blockVars
  BY <1>1, <1>2 DEF blockVars
<1>3. ASSUME NEW c \in Connections, NewContext(c) PROVE WholeInv'
  BY <1>1, <1>3 DEF NewContext
<1>4. CASE Flush
  <2>1. UNCHANGED handled /\ Pushed("static", static)
    BY <1>4 DEF Flush
  <2>2. submitted \in Seq(Blocks) /\ static \in Seq(Nat)
    BY DEF StaticInv, BlocksFine, Divides
  <2>3. WholeIn(handled, submitted', Len(handled))
    BY <2>1, <2>2, PushedWhole DEF WholeInv
  <2> QED BY <2>1, <2>3 DEF WholeInv
<1> QED BY <1>2, <1>3, <1>4, StepEffect, WholeOfLine

(***************************************************************************)
(* The dynamic blocks handed over are, in the order of their closing       *)
(* braces, all the commands between the outermost braces of one connection *)
(* and nothing else, whatever the other connections send in between.       *)
(***************************************************************************)
THEOREM DynamicBlocksAreWhole == Spec => []DynamicBlocksWhole
<1>1. StaticInv /\ WholeInv => DynamicBlocksWhole
  <2> SUFFICES ASSUME StaticInv, WholeInv PROVE DynamicBlocksWhole
    OBVIOUS
  <2> DEFINE blocks == BlocksOf("dynamic")
             n == Len(handled)
             pairs == {[last |-> i, within |-> Enclosed(handled[i].conn, i - 1)] : i \in LastBraces}
             filled == {p \in pairs : p.within # {}}
  <2>1. blocks = DynamicOf(submitted) /\ \A b \in blocks : b \in 1 .. Len(submitted)
    BY DEF BlocksOf, DynamicOf
  <2>2. \A p \in filled : p.last \in ClosersIn(handled, n) /\ p.within = Closes(handled, p.last)
    <3>1. \A i : Enclosed(handled[i].conn, i - 1) = Closes(handled, i)
      BY OfHistory DEF Closes
    <3> QED BY <3>1, OfHistory DEF LastBraces, ClosersIn
  <2>3. \A i \in ClosersIn(handled, n) :
            \E p \in filled : p.last = i /\ p.within = Closes(handled, i)
    <3>1. \A i : Enclosed(handled[i].conn, i - 1) = Closes(handled, i)
      BY OfHistory DEF Closes
    <3>2. ASSUME NEW i \in ClosersIn(handled, n)
          PROVE  [last |-> i, within |-> Closes(handled, i)] \in filled
      BY <3>1, OfHistory DEF LastBraces, ClosersIn
    <3> QED BY <3>2
  <2>4. \A b \in blocks : ToSet(Commands(b)) = Positions(submitted[b].commands)
    <3>1. ASSUME NEW b \in blocks
          PROVE  ToSet(submitted[b].commands) = Positions(submitted[b].commands)
      <4>1. submitted \in Seq(Blocks)
        BY DEF StaticInv, BlocksFine
      <4>2. submitted[b] \in Blocks
        BY <2>1, <4>1, ElementOfSeq
      <4> QED BY <4>2, OfPositions DEF Blocks
    <3> QED BY <3>1 DEF Commands
  <2>5. WholeIn(handled, submitted, n)
    BY DEF WholeInv
  <2>6. /\ \A b \in blocks : Increasing(Commands(b))
                              /\ \E p \in filled : ToSet(Commands(b)) = p.within
        /\ \A p \in filled : \E b \in blocks : ToSet(Commands(b)) = p.within
        /\ \A a, b \in blocks : \A p, q \in filled :
              a < b /\ ToSet(Commands(a)) = p.within /\ ToSet(Commands(b)) = q.within
              => p.last < q.last
    <3> HIDE DEF blocks, n, filled
    <3> QED BY <2>1, <2>2, <2>3, <2>4, <2>5 DEF WholeIn, Commands
  <2> QED BY <2>6 DEF DynamicBlocksWhole
<1> QED BY <1>1, WholeInit, WholeStep, BlocksInvariant, PTL DEF Spec
=============================================================================
