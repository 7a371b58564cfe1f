---------------------------- MODULE FrontendProofs ----------------------------
(* The views of the web application, and the row of a machine that they    *)
(* show: the live log view keeps its lines, what an operator asked of a    *)
(* machine holds unless an older copy of its row was in the hands of a     *)
(* handler, the pages show their own things (PanelsProofs), and each does  *)
(* so in the application as it does alone.                                 *)
EXTENDS Frontend, PanelsProofs, FiniteSetTheorems, WellFoundedInduction

-----------------------------------------------------------------------------
(* The live log view, for any limits, lines, pauses and loads. *)

NumberedLine(n, kind) ==
  [id |-> n, container |-> kind.container, ms |-> kind.ms, extracted |-> FALSE]

Line == {NumberedLine(n, kind) : n \in 1 .. MaxLines, kind \in Kinds}

EndsWith(t, s) ==
  /\ Len(s) <= Len(t)
  /\ \A k \in 1 .. Len(s) : s[k] = t[Len(t) - Len(s) + k]

LogTypes ==
  /\ published \in Seq(Line) /\ lines \in Seq(Line) /\ queue \in Seq(Line)
  /\ since \in Seq(Line) /\ past.lines \in Seq(Line)

(* The queue is taken when the view resumes, so it is empty whenever lines *)
(* are appended to those that are shown.                                   *)
LogInv ==
  /\ LogTypes
  /\ streaming => queue = << >>
  /\ EndsWith(since, lines \o queue)
  /\ lines \o queue = since \/ Len(lines) >= Kept

-----------------------------------------------------------------------------
(* EndsWith is what the community modules call a suffix. *)
LEMMA EndsIsSuffix ==
  ASSUME NEW S, NEW s \in Seq(S), NEW t \in Seq(S), EndsWith(t, s)
  PROVE  IsSuffix(s, t)
<1> DEFINE rs == Reverse(s)
           rt == Reverse(t)
<1>1. Len(s) \in Nat /\ Len(t) \in Nat /\ Len(s) <= Len(t)
  BY LenProperties DEF EndsWith
<1>2. /\ \A k \in 1 .. Len(s) : s[k] \in S
      /\ \A k \in 1 .. Len(t) : t[k] \in S
  BY ElementOfSeq
<1>3. /\ rs \in Seq(S) /\ Len(rs) = Len(s)
      /\ \A k \in 1 .. Len(s) : rs[k] = s[Len(s) - k + 1]
  <2>1. rs \in [1 .. Len(s) -> S] /\ \A k \in 1 .. Len(s) : rs[k] = s[Len(s) - k + 1]
    BY <1>1, <1>2 DEF Reverse
  <2>. HIDE DEF rs
  <2>. QED
    BY <1>1, <2>1, IsASeq, LenProperties
<1>4. /\ rt \in Seq(S) /\ Len(rt) = Len(t)
      /\ \A k \in 1 .. Len(t) : rt[k] = t[Len(t) - k + 1]
  <2>1. rt \in [1 .. Len(t) -> S] /\ \A k \in 1 .. Len(t) : rt[k] = t[Len(t) - k + 1]
    BY <1>1, <1>2 DEF Reverse
  <2>. HIDE DEF rt
  <2>. QED
    BY <1>1, <2>1, IsASeq, LenProperties
<1>5. IsSuffix(s, t) <=> Len(rs) <= Len(rt) /\ SubSeq(rs, 1, Len(rs)) = SubSeq(rt, 1, Len(rs))
  BY DEF IsSuffix, IsPrefix
<1>. HIDE DEF rs, rt
<1>6. \A k \in 1 .. Len(s) : rs[k] = rt[k]
  <2> SUFFICES ASSUME NEW k \in 1 .. Len(s) PROVE rs[k] = rt[k]
    OBVIOUS
  <2>1. k \in 1 .. Len(t) /\ Len(s) - k + 1 \in 1 .. Len(s)
        /\ Len(t) - Len(s) + (Len(s) - k + 1) = Len(t) - k + 1
    BY <1>1
  <2>2. s[Len(s) - k + 1] = t[Len(t) - Len(s) + (Len(s) - k + 1)]
    BY <2>1 DEF EndsWith
  <2>. QED
    BY <1>3, <1>4, <2>1, <2>2
<1>7. SubSeq(rs, 1, Len(s)) = SubSeq(rt, 1, Len(s))
  BY <1>1, <1>6
<1>. QED
  BY <1>1, <1>3, <1>4, <1>5, <1>7

(* What ends a sequence ends it after both have got one more element.      *)
LEMMA EndsAppend ==
  ASSUME NEW S, NEW s \in Seq(S), NEW t \in Seq(S), NEW l \in S, EndsWith(t, s)
  PROVE  EndsWith(Append(t, l), Append(s, l))
<1>1. Len(s) \in Nat /\ Len(t) \in Nat
  BY LenProperties
<1>2. /\ Len(Append(s, l)) = Len(s) + 1 /\ Len(Append(t, l)) = Len(t) + 1
      /\ \A k \in 1 .. Len(s) : Append(s, l)[k] = s[k]
      /\ \A k \in 1 .. Len(t) : Append(t, l)[k] = t[k]
      /\ Append(s, l)[Len(s) + 1] = l /\ Append(t, l)[Len(t) + 1] = l
  OBVIOUS
<1>3. ASSUME NEW k \in 1 .. Len(s) + 1
      PROVE  Append(s, l)[k] = Append(t, l)[(Len(t) + 1) - (Len(s) + 1) + k]
  <2>1. (Len(t) + 1) - (Len(s) + 1) + k = Len(t) - Len(s) + k
    BY <1>1
  <2>2. CASE k = Len(s) + 1
    BY <1>1, <1>2, <2>1, <2>2
  <2>3. CASE k \in 1 .. Len(s)
    <3>1. s[k] = t[Len(t) - Len(s) + k] /\ Len(t) - Len(s) + k \in 1 .. Len(t)
      BY <1>1, <2>3 DEF EndsWith
    <3>. QED
      BY <1>2, <2>1, <2>3, <3>1
  <2>4. k = Len(s) + 1 \/ k \in 1 .. Len(s)
    BY <1>1, <1>3
  <2>. QED
    BY <2>2, <2>3, <2>4, Zenon
<1>. QED
  <2> DEFINE sl == Append(s, l)
             tl == Append(t, l)
  <2>1. Len(sl) = Len(s) + 1 /\ Len(tl) = Len(t) + 1
    BY <1>2
  <2>2. \A k \in 1 .. Len(s) + 1 : sl[k] = tl[(Len(t) + 1) - (Len(s) + 1) + k]
    BY <1>3, Zenon
  <2>. HIDE DEF sl, tl
  <2>3. Len(sl) <= Len(tl)
    BY <1>1, <2>1 DEF EndsWith
  <2>4. EndsWith(tl, sl)
    BY <2>1, <2>2, <2>3 DEF EndsWith
  <2>. QED
    BY <2>4 DEF sl, tl

(* The end of an end. *)
LEMMA EndsTransitive ==
  ASSUME NEW S, NEW r \in Seq(S), NEW s \in Seq(S), NEW t \in Seq(S),
         EndsWith(s, r), EndsWith(t, s)
  PROVE  EndsWith(t, r)
<1>1. Len(r) \in Nat /\ Len(s) \in Nat /\ Len(t) \in Nat
  BY LenProperties
<1>2. ASSUME NEW k \in 1 .. Len(r) PROVE r[k] = t[Len(t) - Len(r) + k]
  <2>1. r[k] = s[Len(s) - Len(r) + k] /\ Len(s) - Len(r) + k \in 1 .. Len(s)
    BY <1>1 DEF EndsWith
  <2>2. s[Len(s) - Len(r) + k] = t[Len(t) - Len(s) + (Len(s) - Len(r) + k)]
    BY <2>1 DEF EndsWith
  <2>3. Len(t) - Len(s) + (Len(s) - Len(r) + k) = Len(t) - Len(r) + k
    BY <1>1
  <2>. QED
    BY <2>1, <2>2, <2>3
<1>. QED
  BY <1>1, <1>2 DEF EndsWith

(* The same behind both. *)
LEMMA EndsConcat ==
  ASSUME NEW S, NEW r \in Seq(S), NEW s \in Seq(S), NEW q \in Seq(S), EndsWith(s, r)
  PROVE  EndsWith(s \o q, r \o q)
<1> DEFINE rq == r \o q
           sq == s \o q
<1>1. Len(r) \in Nat /\ Len(s) \in Nat /\ Len(q) \in Nat /\ Len(r) <= Len(s)
  BY LenProperties DEF EndsWith
<1>2. /\ Len(rq) = Len(r) + Len(q)
      /\ \A k \in 1 .. Len(r) + Len(q) : rq[k] = IF k <= Len(r) THEN r[k] ELSE q[k - Len(r)]
  BY ConcatProperties
<1>3. /\ Len(sq) = Len(s) + Len(q)
      /\ \A k \in 1 .. Len(s) + Len(q) : sq[k] = IF k <= Len(s) THEN s[k] ELSE q[k - Len(s)]
  BY ConcatProperties
<1>. HIDE DEF rq, sq
<1>4. ASSUME NEW k \in 1 .. Len(rq) PROVE rq[k] = sq[Len(sq) - Len(rq) + k]
  <2>1. /\ k \in 1 .. Len(r) + Len(q)
        /\ Len(sq) - Len(rq) + k = Len(s) - Len(r) + k
        /\ Len(s) - Len(r) + k \in 1 .. Len(s) + Len(q)
    BY <1>1, <1>2, <1>3
  <2>2. CASE k <= Len(r)
    <3>1. r[k] = s[Len(s) - Len(r) + k] /\ Len(s) - Len(r) + k <= Len(s)
      BY <1>1, <2>1, <2>2 DEF EndsWith
    <3>. QED
      BY <1>2, <1>3, <2>1, <2>2, <3>1
  <2>3. CASE ~(k <= Len(r))
    <3>1. /\ ~(Len(s) - Len(r) + k <= Len(s))
          /\ Len(s) - Len(r) + k - Len(s) = k - Len(r)
      BY <1>1, <2>1, <2>3
    <3>2. rq[k] = q[k - Len(r)]
      BY <1>2, <2>1, <2>3
    <3>3. sq[Len(s) - Len(r) + k] = q[Len(s) - Len(r) + k - Len(s)]
      BY <1>3, <2>1, <3>1
    <3>. QED
      BY <2>1, <3>1, <3>2, <3>3
  <2>. QED
    BY <2>2, <2>3
<1>5. Len(rq) <= Len(sq)
  BY <1>1, <1>2, <1>3
<1>6. EndsWith(sq, rq)
  BY <1>4, <1>5 DEF EndsWith
<1>. QED
  BY <1>6 DEF rq, sq

(* The limit takes lines at the front, and only when there are too many.   *)
LEMMA LatestLines ==
  ASSUME NEW S, NEW s \in Seq(S), NEW n \in Nat \ {0}
  PROVE  /\ Latest(s, n) \in Seq(S) /\ EndsWith(s, Latest(s, n))
         /\ Len(s) <= n => Latest(s, n) = s
         /\ Len(s) > n => Len(Latest(s, n)) = n
<1> DEFINE m == IF Len(s) > n THEN Len(s) - n + 1 ELSE 1
           u == SubSeq(s, m, Len(s))
<1>1. Len(s) \in Nat
  BY LenProperties
<1>2. m \in Int /\ m >= 1
  BY <1>1
<1>3. /\ u \in Seq(S)
      /\ Len(u) = IF m <= Len(s) THEN Len(s) - m + 1 ELSE 0
      /\ \A k \in 1 .. Len(s) - m + 1 : u[k] = s[m + k - 1]
  <2>. HIDE DEF m
  <2>1. \A k \in m .. Len(s) : s[k] \in S
    BY <1>1, <1>2, ElementOfSeq
  <2>. QED
    BY <1>1, <1>2, <2>1, SubSeqProperties
<1>. HIDE DEF u
<1>4. EndsWith(s, u) /\ (Len(s) > n => Len(u) = n) /\ (Len(s) <= n => Len(u) = Len(s))
  <2>1. Len(u) = IF Len(s) > n THEN n ELSE Len(s)
    <3>1. CASE Len(s) > n
      <4>1. m = Len(s) - n + 1 /\ m <= Len(s) /\ Len(s) - m + 1 = n
        BY <1>1, <3>1
      <4>. QED
        BY <1>3, <3>1, <4>1
    <3>2. CASE ~(Len(s) > n)
      <4>1. m = 1 /\ (m <= Len(s) \/ Len(s) = 0) /\ Len(s) - m + 1 = Len(s)
        BY <1>1, <3>2
      <4>. QED
        BY <1>3, <3>2, <4>1
    <3>. QED
      BY <3>1, <3>2
  <2>2. ASSUME NEW k \in 1 .. Len(u) PROVE u[k] = s[Len(s) - Len(u) + k]
    <3>1. k \in 1 .. Len(s) - m + 1 /\ m + k - 1 = Len(s) - Len(u) + k
      BY <1>1, <2>1
    <3>. QED
      BY <1>3, <3>1
  <2>. QED
    <3>1. Len(u) <= Len(s)
      BY <1>1, <2>1
    <3>2. EndsWith(s, u)
      BY <2>2, <3>1 DEF EndsWith
    <3>3. ~(Len(s) > n /\ Len(s) <= n)
      BY <1>1
    <3>. QED
      BY <2>1, <3>2, <3>3, Zenon
<1>5. Len(s) <= n => u = s
  <2> SUFFICES ASSUME Len(s) <= n PROVE u = s
    OBVIOUS
  <2>1. Len(u) = Len(s) /\ \A k \in 1 .. Len(u) : u[k] = s[k]
    BY <1>1, <1>4 DEF EndsWith
  <2>. QED
    BY <1>3, <2>1, SeqEqual
<1>6. Latest(s, n) = u
  BY DEF Latest, u
<1>. QED
  BY <1>3, <1>4, <1>5, <1>6

-----------------------------------------------------------------------------
(* A line arrives: it goes behind the lines, or behind the queue.          *)
LEMMA PublishStep ==
  ASSUME LogInv, NEW kind \in Kinds, Publish(kind)
  PROVE  LogInv'
<1> DEFINE l == NumberedLine(Len(published) + 1, kind)
<1>1. /\ published \in Seq(Line) /\ lines \in Seq(Line) /\ queue \in Seq(Line)
      /\ since \in Seq(Line) /\ past.lines \in Seq(Line)
      /\ EndsWith(since, lines \o queue)
      /\ lines \o queue = since \/ Len(lines) >= Kept
      /\ Len(lines) \in Nat
  BY LenProperties DEF LogInv, LogTypes
<1>2. l \in Line
  <2>1. Len(published) + 1 \in 1 .. MaxLines
    BY <1>1, LenProperties, LogStreamAssumption DEF Publish
  <2>2. \A n \in 1 .. MaxLines : NumberedLine(n, kind) \in Line
    BY DEF Line
  <2>. QED
    BY <2>1, <2>2
<1>3. published' = Append(published, l) /\ UNCHANGED <<streaming, past>>
  BY DEF Publish, NumberedLine
<1>4. \/ UNCHANGED <<lines, queue, since>>
      \/ /\ streaming /\ lines' = Append(Latest(lines, Kept), l)
         /\ since' = Append(since, l) /\ UNCHANGED queue
      \/ /\ ~streaming /\ queue' = Append(queue, l)
         /\ since' = Append(since, l) /\ UNCHANGED lines
  BY DEF Publish, NumberedLine
<1>. HIDE DEF l
<1>5. published' \in Seq(Line) /\ past'.lines \in Seq(Line)
  BY <1>1, <1>2, <1>3
<1>6. CASE UNCHANGED <<lines, queue, since>>
  BY <1>1, <1>3, <1>5, <1>6 DEF LogInv, LogTypes
<1>7. CASE /\ streaming /\ lines' = Append(Latest(lines, Kept), l)
           /\ since' = Append(since, l) /\ UNCHANGED queue
  <2> DEFINE u == Latest(lines, Kept)
  <2>1. queue = << >> /\ lines \o queue = lines
    BY <1>1, <1>7, ConcatEmptySeq DEF LogInv
  <2>2. /\ u \in Seq(Line) /\ EndsWith(lines, u)
        /\ Len(lines) <= Kept => u = lines
        /\ Len(lines) > Kept => Len(u) = Kept
    BY <1>1, LatestLines, LogStreamAssumption
  <2>3. lines' = Append(u, l)
    BY <1>7
  <2>. HIDE DEF u
  <2>4. lines' \in Seq(Line) /\ since' \in Seq(Line) /\ Len(lines') = Len(u) + 1
    BY <1>1, <1>2, <1>7, <2>2, <2>3
  <2>5. EndsWith(since', lines')
    <3>1. EndsWith(since, u)
      BY <1>1, <2>1, <2>2, EndsTransitive
    <3>. QED
      BY <1>1, <1>2, <1>7, <2>2, <2>3, <3>1, EndsAppend
  <2>6. lines' = since' \/ Len(lines') >= Kept
    <3>1. CASE lines = since /\ Len(lines) <= Kept
      BY <1>7, <2>2, <2>3, <3>1
    <3>2. CASE Len(lines) > Kept
      BY <2>2, <2>4, <3>2, LogStreamAssumption
    <3>3. CASE Len(lines) = Kept
      BY <2>2, <2>4, <3>3, LogStreamAssumption
    <3>. QED
      BY <1>1, <2>1, <3>1, <3>2, <3>3, LogStreamAssumption
  <2>7. queue' = << >> /\ lines' \o queue' = lines'
    BY <1>7, <2>1, <2>4, ConcatEmptySeq
  <2>. QED
    BY <1>1, <1>5, <1>7, <2>1, <2>4, <2>5, <2>6, <2>7 DEF LogInv, LogTypes
<1>8. CASE /\ ~streaming /\ queue' = Append(queue, l)
           /\ since' = Append(since, l) /\ UNCHANGED lines
  <2>1. lines \o Append(queue, l) = Append(lines \o queue, l)
    BY <1>1, <1>2
  <2>2. lines' \o queue' = Append(lines \o queue, l)
    BY <1>8, <2>1
  <2>3. lines \o queue \in Seq(Line)
    BY <1>1, ConcatProperties
  <2>4. EndsWith(since', lines' \o queue')
    BY <1>1, <1>2, <1>8, <2>2, <2>3, EndsAppend
  <2>5. queue' \in Seq(Line) /\ since' \in Seq(Line)
    BY <1>1, <1>2, <1>8
  <2>6. lines' \o queue' = since' \/ Len(lines') >= Kept
    BY <1>1, <1>8, <2>2
  <2>. QED
    BY <1>1, <1>3, <1>5, <1>8, <2>4, <2>5, <2>6 DEF LogInv, LogTypes
<1>. QED
  BY <1>4, <1>6, <1>7, <1>8

(* The view resumes: the queue goes behind the lines.                      *)
LEMMA ResumeStep ==
  ASSUME LogInv, HandleResumeLive
  PROVE  LogInv'
<1> DEFINE u == Latest(lines, Kept)
<1>1. /\ published \in Seq(Line) /\ lines \in Seq(Line) /\ queue \in Seq(Line)
      /\ since \in Seq(Line) /\ past.lines \in Seq(Line)
      /\ EndsWith(since, lines \o queue)
      /\ lines \o queue = since \/ Len(lines) >= Kept
      /\ Len(lines) \in Nat /\ Len(queue) \in Nat
  BY LenProperties DEF LogInv, LogTypes
<1>2. /\ u \in Seq(Line) /\ EndsWith(lines, u)
      /\ Len(lines) <= Kept => u = lines
      /\ Len(lines) > Kept => Len(u) = Kept
  BY <1>1, LatestLines, LogStreamAssumption
<1>3. /\ lines' = IF queue = << >> THEN lines ELSE u \o queue
      /\ queue' = << >> /\ UNCHANGED <<published, past, since>>
  BY DEF HandleResumeLive
<1>. HIDE DEF u
<1>4. CASE queue = << >>
  <2>1. lines' \o queue' = lines \o queue
    BY <1>3, <1>4
  <2>. QED
    BY <1>1, <1>3, <1>4, <2>1 DEF LogInv, LogTypes
<1>5. CASE queue # << >>
  <2>1. lines' = u \o queue /\ lines' \in Seq(Line) /\ Len(lines') = Len(u) + Len(queue)
    BY <1>1, <1>2, <1>3, <1>5, ConcatProperties
  <2>2. lines' \o queue' = lines'
    BY <1>3, <2>1, ConcatEmptySeq
  <2>3. EndsWith(since, lines')
    <3>1. EndsWith(lines \o queue, u \o queue)
      BY <1>1, <1>2, EndsConcat
    <3>2. lines \o queue \in Seq(Line)
      BY <1>1, ConcatProperties
    <3>. QED
      BY <1>1, <2>1, <3>1, <3>2, EndsTransitive
  <2>4. lines' = since \/ Len(lines') >= Kept
    <3>1. CASE Len(lines) > Kept
      BY <1>1, <1>2, <2>1, <3>1, LogStreamAssumption
    <3>2. CASE Len(lines) <= Kept
      BY <1>1, <1>2, <2>1, <3>2, LogStreamAssumption
    <3>. QED
      BY <1>1, <3>1, <3>2, LogStreamAssumption
  <2>5. queue' \in Seq(Line)
    BY <1>3
  <2>. QED
    BY <1>1, <1>3, <2>1, <2>2, <2>3, <2>4, <2>5 DEF LogInv, LogTypes
<1>. QED
  BY <1>4, <1>5

(* A sequence turned round. *)
LEMMA ReversedFits ==
  ASSUME NEW S, NEW s \in Seq(S)
  PROVE  Reverse(s) \in Seq(S)
<1>1. Len(s) \in Nat /\ \A k \in 1 .. Len(s) : s[k] \in S
  BY ElementOfSeq, LenProperties
<1>2. Reverse(s) = [k \in 1 .. Len(s) |-> s[Len(s) - k + 1]]
  BY DEF Reverse
<1>3. \A k \in 1 .. Len(s) : s[Len(s) - k + 1] \in S
  <2>1. \A k \in 1 .. Len(s) : Len(s) - k + 1 \in 1 .. Len(s)
    BY <1>1
  <2>. QED
    BY <1>1, <2>1
<1>. QED
  BY <1>1, <1>2, <1>3, IsASeq

(* A history replaces what is shown and keeps the queue.                   *)
LEMMA HistoryStep ==
  ASSUME LogInv, FetchLogsHistory \/ ServeHistory \/ TakeHistory
  PROVE  LogInv'
<1>1. /\ published \in Seq(Line) /\ lines \in Seq(Line) /\ queue \in Seq(Line)
      /\ since \in Seq(Line) /\ past.lines \in Seq(Line)
  BY DEF LogInv, LogTypes
<1>2. << >> \in Seq(Line) /\ Reverse(Latest(published, HistorySize)) \in Seq(Line)
  BY <1>1, LatestLines, ReversedFits, LogStreamAssumption
<1>3. CASE FetchLogsHistory
  BY <1>1, <1>2, <1>3 DEF FetchLogsHistory, Sent, LogInv, LogTypes
<1>4. CASE ServeHistory
  <2>1. past'.lines \in Seq(Line)
    <3>1. \/ past' = [step |-> "answered", lines |-> Reverse(Latest(published, HistorySize))]
          \/ past' = [step |-> "failed", lines |-> << >>]
      BY <1>4 DEF ServeHistory
    <3>2. past'.lines = Reverse(Latest(published, HistorySize)) \/ past'.lines = << >>
      BY <3>1
    <3>. QED
      BY <1>2, <3>2
  <2>. QED
    BY <1>1, <1>4, <2>1 DEF ServeHistory, LogInv, LogTypes
<1>5. CASE TakeHistory
  <2>1. past'.lines \in Seq(Line) /\ UNCHANGED <<published, queue, streaming>>
    BY <1>2, <1>5 DEF TakeHistory, NoLoad
  <2>2. CASE UNCHANGED <<lines, since>>
    BY <1>1, <2>1, <2>2 DEF LogInv, LogTypes
  <2>3. CASE lines' = past.lines /\ since' = past.lines \o queue
    <3>1. lines' \o queue' = since' /\ since' \in Seq(Line)
      BY <1>1, <2>1, <2>3, ConcatProperties
    <3>2. EndsWith(since', since')
      BY <3>1, LenProperties DEF EndsWith
    <3>. QED
      BY <1>1, <2>1, <2>3, <3>1, <3>2 DEF LogInv, LogTypes
  <2>. QED
    BY <1>5, <2>2, <2>3 DEF TakeHistory
<1>. QED
  BY <1>3, <1>4, <1>5

-----------------------------------------------------------------------------
(* It begins with nothing. *)
LEMMA LogInvInit == LogInit => LogInv
BY DEF LogInit, LogInv, LogTypes, EndsWith, Sent

(* Every step keeps the invariant. *)
LEMMA LogInvStep == LogInv /\ [LogStep]_logVars => LogInv'
<1> SUFFICES ASSUME LogInv, [LogStep]_logVars PROVE LogInv'
  OBVIOUS
<1>1. CASE SocketOpens
  BY <1>1 DEF SocketOpens, LogInv, LogTypes
<1>2. CASE Pause
  BY <1>2 DEF Pause, LogInv, LogTypes
<1>3. CASE HandleResumeLive
  BY <1>3, ResumeStep
<1>4. CASE FetchLogsHistory \/ ServeHistory \/ TakeHistory
  BY <1>4, HistoryStep
<1>5. ASSUME NEW kind \in Kinds, Publish(kind) PROVE LogInv'
  BY <1>5, PublishStep
<1>6. CASE UNCHANGED logVars
  BY <1>6 DEF logVars, LogInv, LogTypes
<1>. QED
  BY <1>1, <1>2, <1>3, <1>4, <1>5, <1>6 DEF LogStep

(* What is shown and then what is kept apart is the end of what came. *)
LEMMA LogInvKept == LogInv => StreamKept
<1> SUFFICES ASSUME LogInv PROVE StreamKept
  OBVIOUS
<1>1. lines \o queue \in Seq(Line) /\ since \in Seq(Line)
  BY ConcatProperties DEF LogInv, LogTypes
<1>2. IsSuffix(lines \o queue, since)
  BY <1>1, EndsIsSuffix DEF LogInv
<1>. QED
  BY <1>2 DEF LogInv, StreamKept

(* A line that was published has its type. *)
LEMMA LinesTyped == Line \subseteq LineType
<1> SUFFICES ASSUME NEW n \in 1 .. MaxLines, NEW kind \in Kinds
             PROVE  NumberedLine(n, kind) \in LineType
  BY DEF Line
<1>1. kind \in [container : Nat \cup {Missing}, ms : Nat \cup {Missing}]
  BY LogStreamAssumption
<1>. QED
  BY <1>1 DEF NumberedLine, LineType

(* The rest of the state of the view. *)
Control ==
  /\ streaming \in BOOLEAN /\ wired \in BOOLEAN
  /\ past.step \in {"none", "sent", "answered", "failed"}
  /\ query \in Queries /\ toggles \in 0 .. MaxToggles

(* It starts so. *)
LEMMA ControlInit == LogInit => Control
<1> SUFFICES ASSUME LogInit PROVE Control
  OBVIOUS
<1>1. streaming \in BOOLEAN /\ wired \in BOOLEAN
  BY Zenon DEF LogInit
<1>2. toggles \in 0 .. MaxToggles /\ past.step = "sent" /\ query \in Queries
  BY LogStreamAssumption DEF LogInit, Sent
<1>. QED
  BY <1>1, <1>2 DEF Control

(* Every step keeps it so. *)
LEMMA ControlStep == Control /\ [LogStep]_logVars => Control'
<1> SUFFICES ASSUME Control, [LogStep]_logVars PROVE Control'
  OBVIOUS
<1> USE LogStreamAssumption DEF Control
<1>1. CASE SocketOpens
  BY <1>1 DEF SocketOpens
<1>2. CASE Pause \/ HandleResumeLive
  <2>1. streaming' \in BOOLEAN /\ wired' \in BOOLEAN
    BY <1>2, Zenon DEF Pause, HandleResumeLive
  <2>2. Toggle /\ UNCHANGED <<past, query>>
    BY <1>2 DEF Pause, HandleResumeLive
  <2>3. toggles' \in 0 .. MaxToggles
    BY <2>2 DEF Toggle
  <2>. QED
    BY <2>1, <2>2, <2>3
<1>3. CASE FetchLogsHistory \/ ServeHistory \/ TakeHistory
  BY <1>3 DEF FetchLogsHistory, ServeHistory, TakeHistory, Toggle, Sent, NoLoad
<1>4. ASSUME NEW kind \in Kinds, Publish(kind) PROVE Control'
  BY <1>4 DEF Publish
<1>5. CASE UNCHANGED logVars
  BY <1>5 DEF logVars
<1>. QED
  BY <1>1, <1>2, <1>3, <1>4, <1>5 DEF LogStep

(* The types that the model of the view states. *)
LEMMA LogTyped == LogInv /\ Control => LogTypeOK
<1> SUFFICES ASSUME LogInv, Control PROVE LogTypeOK
  OBVIOUS
<1>1. \A s \in Seq(Line) : \A i \in DOMAIN s : s[i] \in LineType
  BY LinesTyped, ElementOfSeq, LenProperties
<1>2. {published, lines, queue, since, past.lines} \subseteq Seq(Line)
  BY DEF LogInv, LogTypes
<1>. QED
  BY <1>1, <1>2 DEF LogTypeOK, Control

(* What the live log view shows, followed by what it keeps apart while it  *)
(* is paused, is the end of its last history (newest line first) and of    *)
(* what came since (oldest first): pauses, resumptions and histories open  *)
(* no gap and change no order, and only the limit takes lines, those at    *)
(* the front.  For any limits and any number of lines.                     *)
THEOREM StreamIsKept == LogSpec => []StreamKept
  BY LogInvInit, LogInvStep, LogInvKept, PTL DEF LogSpec

(* The state of the live log view stays within its type. *)
THEOREM LogTypeCorrect == LogSpec => []LogTypeOK
  BY LogInvInit, LogInvStep, ControlInit, ControlStep, LogTyped, PTL DEF LogSpec

-----------------------------------------------------------------------------
(* The query language of the log view, for any lines and any pipeline.     *)

(* R is a strict total order on S. *)
Orders(R, S) ==
  /\ \A x \in S : <<x, x>> \notin R
  /\ \A x, y \in S : x # y => <<x, y>> \in R \/ <<y, x>> \in R
  /\ \A x, y, z \in S : <<x, y>> \in R /\ <<y, z>> \in R => <<x, z>> \in R

(* A strict total order arranges a finite set: the place of a member is    *)
(* the number of those before it.                                          *)
LEMMA ArrangedFits ==
  ASSUME NEW S, IsFiniteSet(S), NEW R, Orders(R, S)
  PROVE  /\ Cardinality(S) \in Nat
         /\ Arranged(S, R) \in Bijection(1 .. Cardinality(S), S)
<1> DEFINE n == Cardinality(S)
           Below(x) == {y \in S : <<y, x>> \in R}
           rank == [x \in S |-> Cardinality(Below(x)) + 1]
<1>1. n \in Nat
  BY FS_CardinalityType
<1>2. ASSUME NEW x \in S PROVE IsFiniteSet(Below(x)) /\ Cardinality(Below(x)) \in Nat /\ rank[x] \in 1 .. n
  <2>1. Below(x) \in SUBSET S /\ x \notin Below(x)
    BY DEF Orders
  <2>2. IsFiniteSet(Below(x)) /\ Cardinality(Below(x)) <= n /\ (Cardinality(Below(x)) = n => Below(x) = S)
    BY <2>1, FS_Subset
  <2>3. Cardinality(Below(x)) \in Nat
    BY <2>2, FS_CardinalityType
  <2>4. Cardinality(Below(x)) < n
    BY <1>1, <2>1, <2>2, <2>3
  <2>. QED
    BY <1>1, <2>2, <2>3, <2>4
<1>3. ASSUME NEW x \in S, NEW y \in S, <<x, y>> \in R PROVE rank[x] < rank[y]
  <2>1. Below(x) \in SUBSET Below(y) /\ x \in Below(y) /\ x \notin Below(x)
    BY <1>3 DEF Orders
  <2>2. Cardinality(Below(x)) <= Cardinality(Below(y)) /\ (Cardinality(Below(y)) = Cardinality(Below(x)) => Below(y) = Below(x))
    BY <1>2, <2>1, FS_Subset
  <2>3. Cardinality(Below(x)) # Cardinality(Below(y))
    BY <2>1, <2>2
  <2>4. Cardinality(Below(x)) \in Nat /\ Cardinality(Below(y)) \in Nat
    BY <1>2
  <2>5. Cardinality(Below(x)) < Cardinality(Below(y))
    <3>. HIDE DEF Below
    <3>. QED
      BY <2>2, <2>3, <2>4
  <2>6. rank[x] = Cardinality(Below(x)) + 1 /\ rank[y] = Cardinality(Below(y)) + 1
    OBVIOUS
  <2>. QED
    BY <2>4, <2>5, <2>6
<1>4. rank \in Injection(S, 1 .. n)
  <2>1. rank \in [S -> 1 .. n]
    BY <1>2
  <2>2. ASSUME NEW x \in S, NEW y \in S, rank[x] = rank[y] PROVE x = y
    <3>1. rank[x] \in 1 .. n /\ rank[y] \in 1 .. n
      BY <1>2
    <3>2. <<x, y>> \notin R /\ <<y, x>> \notin R
      <4>1. <<x, y>> \in R => rank[x] < rank[y]
        BY <1>3
      <4>2. <<y, x>> \in R => rank[y] < rank[x]
        BY <1>3
      <4>. HIDE DEF rank, n
      <4>3. rank[x] \in Int
        BY <1>1, <3>1
      <4>. QED
        BY <2>2, <4>1, <4>2, <4>3
    <3>. QED
      BY <3>2 DEF Orders
  <2>. HIDE DEF rank
  <2>. QED
    BY <2>1, <2>2 DEF Injection, IsInjective
<1>5. rank \in Surjection(S, 1 .. n)
  <2>1. IsFiniteSet(1 .. n) /\ Cardinality(1 .. n) = n
    BY <1>1, FS_Interval
  <2>. HIDE DEF rank
  <2>2. Cardinality(S) = Cardinality(1 .. n) <=> rank \in Surjection(S, 1 .. n)
    BY <1>4, <2>1, FS_Injection
  <2>. QED
    BY <2>1, <2>2
<1> DEFINE g == [i \in 1 .. n |-> CHOOSE x \in S : rank[x] = i]
<1>6. \A i \in 1 .. n : g[i] \in S /\ rank[g[i]] = i
  <2>. HIDE DEF rank
  <2>. QED
    BY <1>5 DEF Surjection
<1>7. g \in [1 .. n -> S]
  BY <1>6
<1>8. ASSUME NEW i \in 1 .. n, NEW j \in 1 .. n, i < j PROVE <<g[i], g[j]>> \in R
  <2>. HIDE DEF rank, g
  <2>1. g[i] \in S /\ g[j] \in S /\ rank[g[i]] = i /\ rank[g[j]] = j
    BY <1>6
  <2>2. g[i] # g[j]
    BY <1>8, <2>1
  <2>3. <<g[j], g[i]>> \notin R
    <3>1. SUFFICES ASSUME <<g[j], g[i]>> \in R PROVE FALSE
      OBVIOUS
    <3>2. rank[g[j]] < rank[g[i]]
      BY <1>3, <2>1, <3>1
    <3>. QED
      BY <1>8, <2>1, <3>2
  <2>. QED
    BY <2>1, <2>2, <2>3 DEF Orders
<1> DEFINE f == Arranged(S, R)
<1>9. f \in [1 .. n -> S] /\ \A i, j \in 1 .. n : i < j => <<f[i], f[j]>> \in R
  <2>1. DOMAIN g = 1 .. n
    BY <1>7
  <2>2. \E h \in [1 .. n -> S] : \A i, j \in DOMAIN h : i < j => <<h[i], h[j]>> \in R
    <3>. HIDE DEF g, n
    <3>. QED
      BY <1>7, <1>8, <2>1
  <2>3. f \in [1 .. n -> S] /\ \A i, j \in DOMAIN f : i < j => <<f[i], f[j]>> \in R
    BY <2>2 DEF Arranged
  <2>. QED
    BY <2>3
<1>10. f \in Injection(1 .. n, S)
  <2>. HIDE DEF f, n
  <2>1. ASSUME NEW i \in 1 .. n, NEW j \in 1 .. n, i # j PROVE f[i] # f[j]
    <3>1. f[i] \in S /\ f[j] \in S /\ <<f[i], f[i]>> \notin R
      BY <1>9 DEF Orders
    <3>2. i < j \/ j < i
      BY <2>1
    <3>. QED
      BY <1>9, <3>1, <3>2
  <2>. QED
    BY <1>9, <2>1 DEF Injection, IsInjective
<1>11. f \in Surjection(1 .. n, S)
  <2>1. IsFiniteSet(1 .. n) /\ Cardinality(1 .. n) = n
    BY <1>1, FS_Interval
  <2>2. Cardinality(1 .. n) = Cardinality(S) <=> f \in Surjection(1 .. n, S)
    <3>. HIDE DEF f
    <3>. QED
      BY <1>10, FS_Injection
  <2>. QED
    BY <2>1, <2>2
<1>. QED
  BY <1>1, <1>10, <1>11 DEF Bijection

(* A nonempty set of natural numbers has a least element. *)
LEMMA Least ==
  ASSUME NEW S \in SUBSET Nat, S # {}
  PROVE  \E m \in S : \A n \in S : m <= n
<1>1. PICK m \in S : \A n \in S : <<n, m>> \notin OpToRel(<, Nat)
  BY WFMin, NatLessThanWellFounded
<1>2. \A n \in S : ~(n < m)
  BY <1>1, Zenon DEF OpToRel
<1>. QED
  BY <1>2

(* The figures of a group add up: the recursion has a solution. *)
LEMMA TotalIsInt ==
  ASSUME NEW ls \in Seq(LineType)
  PROVE  TotalMs(ls) \in Int
<1> DEFINE L == Len(ls)
           Adds(n, g) == \A i \in 0 .. n : g[i] = IF i = 0 THEN 0 ELSE g[i - 1] + ls[i].ms
           Bad == {n \in 0 .. L : ~\E g \in [0 .. n -> Int] : Adds(n, g)}
<1>1. L \in Nat /\ \A i \in 1 .. L : ls[i].ms \in Int
  <2>1. L \in Nat /\ \A i \in 1 .. L : ls[i] \in LineType
    BY ElementOfSeq, LenProperties
  <2>. QED
    BY <2>1 DEF LineType, Missing
<1>2. Bad = {}
  <2>1. SUFFICES ASSUME Bad # {} PROVE FALSE
    OBVIOUS
  <2>2. PICK m \in Bad : \A n \in Bad : m <= n
    <3>1. Bad \in SUBSET Nat
      BY <1>1
    <3>. HIDE DEF Bad
    <3>. QED
      BY <2>1, <3>1, Least
  <2>3. m \in 0 .. L
    BY <2>2
  <2>4. CASE m = 0
    <3> DEFINE z == [i \in 0 .. 0 |-> 0]
    <3>1. z \in [0 .. 0 -> Int] /\ Adds(0, z)
      OBVIOUS
    <3>. QED
      BY <2>2, <2>4, <3>1
  <2>5. CASE m # 0
    <3>1. m \in Nat /\ m - 1 \in 0 .. L /\ m \in 1 .. L
      BY <1>1, <2>3, <2>5
    <3>2. m - 1 \notin Bad
      <4>. HIDE DEF Bad
      <4>. QED
        BY <2>2, <3>1
    <3>3. PICK g \in [0 .. m - 1 -> Int] : Adds(m - 1, g)
      BY <3>1, <3>2
    <3> DEFINE h == [i \in 0 .. m |-> IF i < m THEN g[i] ELSE g[m - 1] + ls[m].ms]
    <3>4. h \in [0 .. m -> Int]
      BY <1>1, <3>1
    <3>5. ASSUME NEW i \in 0 .. m PROVE h[i] = IF i = 0 THEN 0 ELSE h[i - 1] + ls[i].ms
      BY <3>1, <3>3
    <3>6. Adds(m, h)
      BY <3>5
    <3>. QED
      BY <2>2, <3>4, <3>6
  <2>. QED
    BY <2>4, <2>5
<1>3. PICK g \in [0 .. L -> Int] : Adds(L, g)
  <2>1. L \in 0 .. L
    BY <1>1
  <2>. QED
    BY <1>2, <2>1
<1> DEFINE sum == CHOOSE f : f = [n \in 0 .. L |-> IF n = 0 THEN 0 ELSE f[n - 1] + ls[n].ms]
<1>4. g = [n \in 0 .. L |-> IF n = 0 THEN 0 ELSE g[n - 1] + ls[n].ms]
  BY <1>3
<1>5. sum = [n \in 0 .. L |-> IF n = 0 THEN 0 ELSE sum[n - 1] + ls[n].ms]
  BY <1>4
<1>6. TotalMs(ls) = sum[L]
  BY DEF TotalMs
<1>. HIDE DEF sum
<1> DEFINE Wrong == {n \in 0 .. L : sum[n] \notin Int}
<1>7. Wrong = {}
  <2>1. SUFFICES ASSUME Wrong # {} PROVE FALSE
    OBVIOUS
  <2>2. PICK m \in Wrong : \A n \in Wrong : m <= n
    <3>1. Wrong \in SUBSET Nat
      BY <1>1
    <3>. HIDE DEF Wrong
    <3>. QED
      BY <2>1, <3>1, Least
  <2>3. m \in 0 .. L /\ sum[m] \notin Int /\ sum[m] = IF m = 0 THEN 0 ELSE sum[m - 1] + ls[m].ms
    BY <1>5, <2>2
  <2>4. m # 0 /\ m \in 1 .. L /\ m - 1 \in 0 .. L
    BY <1>1, <2>3
  <2>5. m - 1 \notin Wrong
    <3>. HIDE DEF Wrong
    <3>. QED
      BY <2>2, <2>4
  <2>6. sum[m - 1] \in Int
    BY <2>4, <2>5
  <2>. QED
    BY <1>1, <2>3, <2>4, <2>6
<1>8. L \in 0 .. L
  BY <1>1
<1>. QED
  BY <1>6, <1>7, <1>8

(* The elements at some places: their number, and one for each place.      *)
LEMMA AtPlaces ==
  ASSUME NEW T, NEW s \in Seq(T), NEW P \in SUBSET DOMAIN s
  PROVE  /\ IsFiniteSet(P) /\ Cardinality(P) \in Nat
         /\ \E order \in Bijection(1 .. Cardinality(P), P) :
              At(s, P) = [n \in 1 .. Cardinality(P) |-> s[order[n]]]
<1> DEFINE R == {p \in P \X P : p[1] < p[2]}
           order == Arranged(P, R)
<1>1. DOMAIN s = 1 .. Len(s) /\ Len(s) \in Nat
  BY LenProperties
<1>2. IsFiniteSet(P)
  <2>1. IsFiniteSet(1 .. Len(s))
    BY <1>1, FS_Interval
  <2>. QED
    BY <1>1, <2>1, FS_Subset
<1>3. P \subseteq Nat
  BY <1>1
<1>4. Orders(R, P)
  <2>1. \A x, y \in P : <<x, y>> \in R <=> x < y
    OBVIOUS
  <2>. HIDE DEF R
  <2>. QED
    BY <1>3, <2>1 DEF Orders
<1>5. Cardinality(P) \in Nat /\ order \in Bijection(1 .. Cardinality(P), P)
  <2>. HIDE DEF R
  <2>. QED
    BY <1>2, <1>4, ArrangedFits
<1>6. DOMAIN order = 1 .. Cardinality(P)
  <2>. HIDE DEF order
  <2>. QED
    BY <1>5 DEF Bijection, Injection
<1>7. At(s, P) = [n \in DOMAIN order |-> s[order[n]]]
  BY DEF At
<1>. HIDE DEF order
<1>. QED
  BY <1>2, <1>5, <1>6, <1>7

(* They are a sequence of the same elements. *)
LEMMA AtFits ==
  ASSUME NEW T, NEW s \in Seq(T), NEW P \in SUBSET DOMAIN s
  PROVE  /\ At(s, P) \in Seq(T)
         /\ Len(At(s, P)) = Cardinality(P) /\ DOMAIN At(s, P) = 1 .. Cardinality(P)
         /\ \A n \in DOMAIN At(s, P) : \E i \in P : At(s, P)[n] = s[i]
<1>1. Cardinality(P) \in Nat
  BY AtPlaces
<1>2. PICK order \in Bijection(1 .. Cardinality(P), P) :
        At(s, P) = [n \in 1 .. Cardinality(P) |-> s[order[n]]]
  BY AtPlaces
<1>3. \A n \in 1 .. Cardinality(P) : order[n] \in P
  BY <1>2 DEF Bijection, Injection
<1>4. DOMAIN s = 1 .. Len(s) /\ \A i \in DOMAIN s : s[i] \in T
  BY ElementOfSeq, LenProperties
<1>5. \A n \in 1 .. Cardinality(P) : s[order[n]] \in T
  BY <1>3, <1>4
<1>6. At(s, P) \in Seq(T) /\ Len(At(s, P)) = Cardinality(P)
  BY <1>1, <1>2, <1>5, IsASeq
<1>. QED
  BY <1>2, <1>3, <1>6

(* How many of some places hold one of the elements G. *)
Among(s, P, G) == Cardinality({i \in P : s[i] \in G})

(* Picking from what was picked counts the places that pass both.          *)
LEMMA AtCounts ==
  ASSUME NEW T, NEW s \in Seq(T), NEW P \in SUBSET DOMAIN s, NEW G
  PROVE  Among(At(s, P), DOMAIN At(s, P), G) = Among(s, P, G)
<1> DEFINE A == At(s, P)
           M == {n \in DOMAIN A : A[n] \in G}
           Q == {i \in P : s[i] \in G}
<1>1. PICK order \in Bijection(1 .. Cardinality(P), P) :
        A = [n \in 1 .. Cardinality(P) |-> s[order[n]]]
  BY AtPlaces
<1>2. DOMAIN A = 1 .. Cardinality(P) /\ \A n \in DOMAIN A : A[n] = s[order[n]]
  BY <1>1
<1>3. /\ \A n \in DOMAIN A : order[n] \in P
      /\ \A m, n \in DOMAIN A : order[m] = order[n] => m = n
      /\ \A i \in P : \E n \in DOMAIN A : order[n] = i
  BY <1>1, <1>2 DEF Bijection, Injection, IsInjective, Surjection
<1> DEFINE h == [n \in M |-> order[n]]
<1>4. h \in Bijection(M, Q)
  <2>1. h \in [M -> Q]
    BY <1>2, <1>3
  <2>2. \A m, n \in M : h[m] = h[n] => m = n
    BY <1>3
  <2>3. \A i \in Q : \E n \in M : h[n] = i
    <3> TAKE i \in Q
    <3>1. PICK n \in DOMAIN A : order[n] = i
      BY <1>3
    <3>2. n \in M
      BY <1>2, <3>1
    <3>. QED
      BY <3>1, <3>2
  <2>. HIDE DEF h, M, Q
  <2>. QED
    BY <2>1, <2>2, <2>3 DEF Bijection, Injection, IsInjective, Surjection
<1>5. IsFiniteSet(M)
  <2>1. Cardinality(P) \in Nat
    BY AtPlaces
  <2>2. IsFiniteSet(1 .. Cardinality(P)) /\ M \in SUBSET (1 .. Cardinality(P))
    BY <1>2, <2>1, FS_Interval
  <2>. HIDE DEF M
  <2>. QED
    BY <2>2, FS_Subset
<1>6. ExistsBijection(M, Q)
  <2>. HIDE DEF h, M, Q
  <2>. QED
    BY <1>4 DEF ExistsBijection
<1>. HIDE DEF M, Q
<1>7. Cardinality(Q) = Cardinality(M)
  BY <1>5, <1>6, FS_Bijection
<1>. QED
  BY <1>7 DEF Among, M, Q

(* The elements of a sequence. *)
LEMMA Elements ==
  ASSUME NEW T, NEW s \in Seq(T)
  PROVE  DOMAIN s = 1 .. Len(s) /\ Len(s) \in Nat /\ \A i \in DOMAIN s : s[i] \in T
  BY ElementOfSeq, LenProperties

(* A sort permutes. *)
LEMMA DescendingFits ==
  ASSUME NEW T, NEW s \in Seq(T), NEW v \in [DOMAIN s -> Int]
  PROVE  /\ Descending(s, v) \in Seq(T) /\ DOMAIN Descending(s, v) = DOMAIN s
         /\ \A n \in DOMAIN s : \E i \in DOMAIN s : Descending(s, v)[n] = s[i]
<1> DEFINE D == DOMAIN s
           R == {p \in D \X D : v[p[1]] > v[p[2]] \/ (v[p[1]] = v[p[2]] /\ p[1] < p[2])}
           order == Arranged(D, R)
<1>1. DOMAIN s = 1 .. Len(s) /\ Len(s) \in Nat
  BY LenProperties
<1>2. \A i \in DOMAIN s : s[i] \in T
  BY Elements
<1>3. IsFiniteSet(D) /\ Cardinality(D) = Len(s)
  <2>1. /\ IsFiniteSet(1 .. Len(s)) /\ Cardinality(1 .. Len(s)) = IF 1 > Len(s) THEN 0 ELSE Len(s) - 1 + 1
    <3>. HIDE DEF D, R, order
    <3>. QED
      BY <1>1, FS_Interval
  <2>2. (IF 1 > Len(s) THEN 0 ELSE Len(s) - 1 + 1) = Len(s)
    BY <1>1
  <2>. QED
    BY <1>1, <2>1, <2>2
<1>4. Orders(R, D)
  <2>1. \A x, y \in D : <<x, y>> \in R <=> v[x] > v[y] \/ (v[x] = v[y] /\ x < y)
    OBVIOUS
  <2>2. \A x \in D : x \in Int
    BY <1>1
  <2>3. \A x \in D : v[x] \in Int
    OBVIOUS
  <2>. HIDE DEF R, D
  <2>4. \A x \in D : <<x, x>> \notin R
    BY <2>1, <2>2, <2>3
  <2>5. \A x, y \in D : x # y => <<x, y>> \in R \/ <<y, x>> \in R
    <3>. SUFFICES ASSUME NEW x \in D, NEW y \in D, x # y
                  PROVE <<x, y>> \in R \/ <<y, x>> \in R
      OBVIOUS
    <3>1. v[x] \in Int /\ v[y] \in Int /\ x \in Int /\ y \in Int
      BY <2>2, <2>3
    <3>2. (v[x] > v[y] \/ (v[x] = v[y] /\ x < y)) \/ (v[y] > v[x] \/ (v[y] = v[x] /\ y < x))
      BY <3>1
    <3>. QED
      BY <2>1, <3>2
  <2>6. \A x, y, z \in D : <<x, y>> \in R /\ <<y, z>> \in R => <<x, z>> \in R
    <3>. SUFFICES ASSUME NEW x \in D, NEW y \in D, NEW z \in D, <<x, y>> \in R, <<y, z>> \in R
                  PROVE <<x, z>> \in R
      OBVIOUS
    <3>1. v[x] \in Int /\ v[y] \in Int /\ v[z] \in Int /\ x \in Int /\ y \in Int /\ z \in Int
      BY <2>2, <2>3
    <3>2. (v[x] > v[y] \/ (v[x] = v[y] /\ x < y)) /\ (v[y] > v[z] \/ (v[y] = v[z] /\ y < z))
      BY <2>1
    <3>3. v[x] > v[z] \/ (v[x] = v[z] /\ x < z)
      BY <3>1, <3>2
    <3>. QED
      BY <2>1, <3>3
  <2>. QED
    BY <2>4, <2>5, <2>6 DEF Orders
<1>5. order \in Bijection(1 .. Cardinality(D), D)
  <2>. HIDE DEF R, D
  <2>. QED
    BY <1>3, <1>4, ArrangedFits
<1>6. Descending(s, v) = [n \in DOMAIN s |-> s[order[n]]]
  BY DEF Descending
<1>. HIDE DEF order
<1>7. \A n \in DOMAIN s : order[n] \in DOMAIN s
  BY <1>1, <1>3, <1>5 DEF Bijection, Injection
<1>8. \A n \in 1 .. Len(s) : s[order[n]] \in T
  BY <1>1, <1>2, <1>7
<1>9. Descending(s, v) \in Seq(T)
  BY <1>1, <1>6, <1>8, IsASeq
<1>. QED
  BY <1>6, <1>7, <1>9

(* A bucket, and what a pipeline has after each stage. *)
BucketType == [key : Int, count : Nat, value : Int]

ResultType ==
  [lines : Seq(LineType),
   stats : [by : Columns \cup {"none"}, sums : BOOLEAN, buckets : Seq(BucketType)]]

(* What a line shows under a column is a number, or it is missing.         *)
LEMMA ValueFits ==
  ASSUME NEW l \in LineType, NEW field \in Columns
  PROVE  /\ Value(l, field) \in Nat \cup {Missing} /\ Value(l, field) \in Int
         /\ \A sums \in BOOLEAN : Key(l, field, sums) \in Int
<1>1. l.container \in Nat \cup {Missing} /\ l.ms \in Nat \cup {Missing} /\ l.extracted \in BOOLEAN
  BY DEF LineType
<1>2. field = "container" \/ field = "ms"
  BY DEF Columns
<1>3. Value(l, field) \in Nat \cup {Missing}
  BY <1>1, <1>2 DEF Value
<1>4. Value(l, field) \in Int
  BY <1>3 DEF Missing
<1>. QED
  BY <1>3, <1>4 DEF Key, NoneKey

(* The two ways to key a line differ for a 0 only, which a sum puts with   *)
(* the lines that lack the field.                                          *)
LEMMA KeysDiffer ==
  ASSUME NEW l \in LineType, NEW field \in Columns
  PROVE  /\ Key(l, field, TRUE) # 0
         /\ \A key : key # 0 /\ key # NoneKey =>
              (Key(l, field, TRUE) = key <=> Key(l, field, FALSE) = key)
         /\ Key(l, field, TRUE) = NoneKey <=>
              Key(l, field, FALSE) = NoneKey \/ Value(l, field) = 0
         /\ ~(Key(l, field, FALSE) = NoneKey /\ Value(l, field) = 0)
<1>1. Value(l, field) \in Nat \cup {Missing}
  BY ValueFits
<1>2. Value(l, field) = Missing \/ Value(l, field) \in Nat
  BY <1>1
<1>. QED
  BY <1>2 DEF Key, NoneKey, Missing

(* The lines of a group. *)
LEMMA SharingFits ==
  ASSUME NEW ls \in Seq(LineType), NEW field, NEW sums, NEW key
  PROVE  /\ Sharing(ls, field, sums, key) \in Seq(LineType)
         /\ Len(Sharing(ls, field, sums, key)) \in Nat
<1> DEFINE P == {i \in DOMAIN ls : Key(ls[i], field, sums) = key}
<1>1. P \in SUBSET DOMAIN ls
  OBVIOUS
<1>2. At(ls, P) \in Seq(LineType)
  <2>. HIDE DEF P
  <2>. QED
    BY <1>1, AtFits
<1>. QED
  BY <1>2, LenProperties DEF Sharing

(* The lines with a number. *)
LEMMA NumberedFits ==
  ASSUME NEW ls \in Seq(LineType)
  PROVE  Numbered(ls) \in Seq(LineType) /\ Len(Numbered(ls)) \in Nat
<1> DEFINE P == {i \in DOMAIN ls : Value(ls[i], "ms") # Missing}
<1>1. P \in SUBSET DOMAIN ls
  OBVIOUS
<1>2. At(ls, P) \in Seq(LineType)
  <2>. HIDE DEF P
  <2>. QED
    BY <1>1, AtFits
<1>. QED
  BY <1>2, LenProperties DEF Numbered

(* How many of the lines at some places have a number.                     *)
LEMMA NumberedAmong ==
  ASSUME NEW ls \in Seq(LineType), NEW P \in SUBSET DOMAIN ls
  PROVE  Len(Numbered(At(ls, P))) = Cardinality({i \in P : Value(ls[i], "ms") # Missing})
<1> DEFINE A == At(ls, P)
           N == {l \in LineType : Value(l, "ms") # Missing}
           Q == {i \in DOMAIN A : Value(A[i], "ms") # Missing}
<1>1. A \in Seq(LineType)
  BY AtFits
<1>2. /\ \A i \in DOMAIN ls : ls[i] \in LineType
      /\ \A i \in DOMAIN A : A[i] \in LineType
  <2>. HIDE DEF A
  <2>. QED
    BY <1>1, Elements
<1>3. Len(Numbered(A)) = Cardinality(Q)
  <2>1. Q \in SUBSET DOMAIN A /\ Numbered(A) = At(A, Q)
    BY DEF Numbered
  <2>. HIDE DEF A, Q
  <2>. QED
    BY <1>1, <2>1, AtFits
<1>4. /\ Q = {i \in DOMAIN A : A[i] \in N}
      /\ {i \in P : Value(ls[i], "ms") # Missing} = {i \in P : ls[i] \in N}
  <2>. HIDE DEF A
  <2>. QED
    BY <1>2
<1>5. Among(A, DOMAIN A, N) = Among(ls, P, N)
  <2>. HIDE DEF N
  <2>. QED
    BY AtCounts
<1>. HIDE DEF A, N, Q
<1>. QED
  BY <1>3, <1>4, <1>5 DEF Among, A

(* To group the lines with a number, or to take those with a number from a *)
(* group, leaves as many.                                                  *)
LEMMA GroupsAndNumbers ==
  ASSUME NEW ls \in Seq(LineType), NEW field, NEW sums, NEW key
  PROVE  Len(Sharing(Numbered(ls), field, sums, key)) = Len(Numbered(Sharing(ls, field, sums, key)))
<1> DEFINE K == {l \in LineType : Key(l, field, sums) = key}
           PK == {i \in DOMAIN ls : Key(ls[i], field, sums) = key}
           PN == {i \in DOMAIN ls : Value(ls[i], "ms") # Missing}
           QK == {i \in DOMAIN Numbered(ls) : Key(Numbered(ls)[i], field, sums) = key}
<1>1. \A i \in DOMAIN ls : ls[i] \in LineType
  BY Elements
<1>2. PK \in SUBSET DOMAIN ls /\ PN \in SUBSET DOMAIN ls /\ QK \in SUBSET DOMAIN Numbered(ls)
  OBVIOUS
<1>3. /\ Numbered(ls) = At(ls, PN) /\ Sharing(ls, field, sums, key) = At(ls, PK)
      /\ Sharing(Numbered(ls), field, sums, key) = At(Numbered(ls), QK)
  BY DEF Numbered, Sharing
<1>4. Len(Sharing(Numbered(ls), field, sums, key)) = Cardinality(QK)
  <2>. HIDE DEF QK
  <2>. QED
    BY <1>2, <1>3, AtFits, NumberedFits
<1>5. QK = {i \in DOMAIN Numbered(ls) : Numbered(ls)[i] \in K}
  <2>1. \A i \in DOMAIN Numbered(ls) : Numbered(ls)[i] \in LineType
    BY NumberedFits, Elements
  <2>. QED
    BY <2>1
<1>6. {i \in PN : ls[i] \in K} = {i \in PK : Value(ls[i], "ms") # Missing}
  BY <1>1
<1>7. Cardinality(QK) = Cardinality({i \in PN : ls[i] \in K})
  <2>. HIDE DEF QK, PN, K
  <2>1. ls \in Seq(LineType) /\ PN \in SUBSET DOMAIN ls
    BY <1>2
  <2>2. Among(At(ls, PN), DOMAIN At(ls, PN), K) = Among(ls, PN, K)
    BY <2>1, AtCounts
  <2>3. QK = {n \in DOMAIN At(ls, PN) : At(ls, PN)[n] \in K}
    BY <1>3, <1>5
  <2>. QED
    BY <2>2, <2>3 DEF Among
<1>8. Len(Numbered(At(ls, PK))) = Cardinality({i \in PK : Value(ls[i], "ms") # Missing})
  <2>. HIDE DEF PK
  <2>. QED
    BY <1>2, NumberedAmong
<1>. QED
  BY <1>3, <1>4, <1>6, <1>7, <1>8

(* What a sum counts under a key that it uses is what a click on the key   *)
(* displays, and under (none) the lines with a 0 too.                      *)
LEMMA SumsAndClicks ==
  ASSUME NEW ls \in Seq(LineType), NEW field \in Columns, NEW key, key # 0
  PROVE  Len(Numbered(Sharing(ls, field, TRUE, key))) =
           Len(Numbered(Sharing(ls, field, FALSE, key)))
             + IF key = NoneKey THEN Len(Numbered(Zeros(ls, field))) ELSE 0
<1> DEFINE PT == {i \in DOMAIN ls : Key(ls[i], field, TRUE) = key}
           PF == {i \in DOMAIN ls : Key(ls[i], field, FALSE) = key}
           PZ == {i \in DOMAIN ls : Value(ls[i], field) = 0}
           Of(P) == {i \in P : Value(ls[i], "ms") # Missing}
<1>1. \A i \in DOMAIN ls : ls[i] \in LineType
  BY Elements
<1>2. PT \in SUBSET DOMAIN ls /\ PF \in SUBSET DOMAIN ls /\ PZ \in SUBSET DOMAIN ls
  OBVIOUS
<1>3. /\ Sharing(ls, field, TRUE, key) = At(ls, PT) /\ Sharing(ls, field, FALSE, key) = At(ls, PF)
      /\ Zeros(ls, field) = At(ls, PZ)
  BY DEF Sharing, Zeros
<1>4. CASE key # NoneKey
  <2>1. PT = PF
    BY <1>1, <1>4, KeysDiffer
  <2>2. Len(Numbered(Sharing(ls, field, FALSE, key))) \in Nat
    BY SharingFits, NumberedFits
  <2>. HIDE DEF PT, PF, PZ
  <2>3. Len(Numbered(Sharing(ls, field, TRUE, key))) = Len(Numbered(Sharing(ls, field, FALSE, key)))
    BY <1>3, <2>1
  <2> DEFINE clicked == Len(Numbered(Sharing(ls, field, FALSE, key)))
  <2>4. (IF key = NoneKey THEN Len(Numbered(Zeros(ls, field))) ELSE 0) = 0
    BY <1>4, Zenon
  <2>5. clicked + 0 = clicked
    <3>1. clicked \in Nat
      BY <2>2
    <3>. HIDE DEF clicked
    <3>. QED
      BY <3>1
  <2>. QED
    BY <2>3, <2>4, <2>5, Zenon
<1>5. CASE key = NoneKey
  <2>1. PT = PF \cup PZ /\ PF \cap PZ = {}
    BY <1>1, <1>5, KeysDiffer
  <2>2. Of(PT) = Of(PF) \cup Of(PZ) /\ Of(PF) \cap Of(PZ) = {}
    <3>. HIDE DEF PT, PF, PZ
    <3>. QED
      BY <2>1
  <2>3. /\ Len(Numbered(At(ls, PT))) = Cardinality(Of(PT))
        /\ Len(Numbered(At(ls, PF))) = Cardinality(Of(PF))
        /\ Len(Numbered(At(ls, PZ))) = Cardinality(Of(PZ))
    <3>. HIDE DEF PT, PF, PZ
    <3>. QED
      BY <1>2, NumberedAmong
  <2>4. /\ IsFiniteSet(Of(PF)) /\ Cardinality(Of(PF)) \in Nat
        /\ IsFiniteSet(Of(PZ)) /\ Cardinality(Of(PZ)) \in Nat
    <3>1. Of(PF) \in SUBSET DOMAIN ls /\ Of(PZ) \in SUBSET DOMAIN ls
      OBVIOUS
    <3>. HIDE DEF Of, PF, PZ
    <3>. QED
      BY <3>1, AtPlaces
  <2>. HIDE DEF Of, PT, PF, PZ
  <2>5. Cardinality(Of(PT)) = Cardinality(Of(PF)) + Cardinality(Of(PZ))
    <3>1. Cardinality(Of(PF) \cup Of(PZ)) =
            Cardinality(Of(PF)) + Cardinality(Of(PZ)) - Cardinality(Of(PF) \cap Of(PZ))
      BY <2>4, FS_Union, Zenon
    <3>2. Cardinality(Of(PF) \cap Of(PZ)) = 0
      BY <2>2, FS_EmptySet, Zenon
    <3>3. Cardinality(Of(PT)) = Cardinality(Of(PF)) + Cardinality(Of(PZ)) - 0
      BY <2>2, <3>1, <3>2, Zenon
    <3>. QED
      BY <2>4, <3>3
  <2>. QED
    BY <1>3, <1>5, <2>3, <2>5
<1>. QED
  BY <1>4, <1>5

(* Every bucket is that of its key, which is no 0 in a sum.                *)
LEMMA BucketsFit ==
  ASSUME NEW ls \in Seq(LineType), NEW field \in Columns, NEW sums \in BOOLEAN
  PROVE  /\ Buckets(ls, field, sums) \in Seq(BucketType)
         /\ \A n \in DOMAIN Buckets(ls, field, sums) :
              LET b == Buckets(ls, field, sums)[n]
              IN b.count = Len(Sharing(ls, field, sums, b.key)) /\ (sums => b.key # 0)
<1> DEFINE firsts == At(ls, Groups(ls, field, sums))
           B == Buckets(ls, field, sums)
           Of(n) == Key(firsts[n], field, sums)
<1>1. firsts \in Seq(LineType)
  <2>1. Groups(ls, field, sums) \in SUBSET DOMAIN ls
    BY DEF Groups
  <2>. QED
    BY <2>1, AtFits
<1>2. DOMAIN firsts = 1 .. Len(firsts) /\ Len(firsts) \in Nat /\ \A n \in DOMAIN firsts : firsts[n] \in LineType
  <2>. HIDE DEF firsts
  <2>. QED
    BY <1>1, Elements
<1>3. B = [n \in DOMAIN firsts |-> Bucket(ls, field, sums, Of(n))]
  BY DEF Buckets
<1>. HIDE DEF firsts, B
<1>4. ASSUME NEW n \in DOMAIN firsts
      PROVE  /\ B[n] \in BucketType /\ B[n].count = Len(Sharing(ls, field, sums, B[n].key))
             /\ sums => B[n].key # 0
  <2>1. Of(n) \in Int /\ (sums => Of(n) # 0)
    BY <1>2, ValueFits, KeysDiffer
  <2>. HIDE DEF Of
  <2>2. /\ Sharing(ls, field, sums, Of(n)) \in Seq(LineType)
        /\ Len(Sharing(ls, field, sums, Of(n))) \in Nat
    BY SharingFits
  <2>3. TotalMs(Sharing(ls, field, sums, Of(n))) \in Int
    BY <2>2, TotalIsInt
  <2>4. B[n] = [key |-> Of(n), count |-> Len(Sharing(ls, field, sums, Of(n))),
                value |-> IF sums THEN TotalMs(Sharing(ls, field, sums, Of(n))) ELSE 0]
    BY <1>3 DEF Bucket
  <2>. QED
    BY <2>1, <2>2, <2>3, <2>4 DEF BucketType
<1>5. DOMAIN B = DOMAIN firsts
  BY <1>3
<1>6. B \in Seq(BucketType)
  <2>1. B = [n \in 1 .. Len(firsts) |-> Bucket(ls, field, sums, Of(n))]
        /\ \A n \in 1 .. Len(firsts) : Bucket(ls, field, sums, Of(n)) \in BucketType
    BY <1>2, <1>3, <1>4
  <2>. QED
    BY <1>2, <2>1, IsASeq
<1>. QED
  BY <1>4, <1>5, <1>6 DEF B

(* A list of buckets, each with the number of the lines of its key.        *)
Tallied(buckets, ls, field, sums) ==
  /\ buckets \in Seq(BucketType)
  /\ \A n \in DOMAIN buckets :
       /\ buckets[n].count = Len(Sharing(ls, field, sums, buckets[n].key))
       /\ sums => buckets[n].key # 0

(* A count tallies the lines, a sum those with a number. *)
LEMMA GroupingTallies ==
  ASSUME NEW ls \in Seq(LineType), NEW field \in Columns
  PROVE  /\ Tallied(Counts(ls, field), ls, field, FALSE)
         /\ Tallied(Sums(ls, field), Numbered(ls), field, TRUE)
<1>1. ASSUME NEW m \in Seq(LineType), NEW sums \in BOOLEAN,
             NEW v \in [DOMAIN Buckets(m, field, sums) -> Int]
      PROVE  Tallied(Descending(Buckets(m, field, sums), v), m, field, sums)
  <2> DEFINE B == Buckets(m, field, sums)
             S == Descending(B, v)
  <2>1. /\ B \in Seq(BucketType)
        /\ \A n \in DOMAIN B : /\ B[n].count = Len(Sharing(m, field, sums, B[n].key))
                               /\ sums => B[n].key # 0
    BY BucketsFit
  <2>. HIDE DEF B
  <2>2. S \in Seq(BucketType) /\ DOMAIN S = DOMAIN B /\ \A n \in DOMAIN B : \E i \in DOMAIN B : S[n] = B[i]
    BY <1>1, <2>1, DescendingFits DEF B
  <2>. HIDE DEF S
  <2>3. \A n \in DOMAIN S : /\ S[n].count = Len(Sharing(m, field, sums, S[n].key))
                            /\ sums => S[n].key # 0
    BY <2>1, <2>2, Zenon
  <2>4. Tallied(S, m, field, sums)
    BY <2>2, <2>3, Zenon DEF Tallied
  <2>. QED
    BY <2>4 DEF S, B
<1>2. ASSUME NEW m \in Seq(LineType), NEW sums \in BOOLEAN
      PROVE  LET B == Buckets(m, field, sums)
             IN /\ [i \in DOMAIN B |-> B[i].count] \in [DOMAIN B -> Int]
                /\ [i \in DOMAIN B |-> B[i].value] \in [DOMAIN B -> Int]
  <2>1. \A i \in DOMAIN Buckets(m, field, sums) : Buckets(m, field, sums)[i] \in BucketType
    BY BucketsFit, Elements
  <2>. QED
    BY <2>1 DEF BucketType
<1>3. Tallied(Counts(ls, field), ls, field, FALSE)
  BY <1>1, <1>2 DEF Counts
<1>4. Numbered(ls) \in Seq(LineType)
  BY NumberedFits
<1>5. Tallied(Sums(ls, field), Numbered(ls), field, TRUE)
  BY <1>1, <1>2, <1>4 DEF Sums
<1>. QED
  BY <1>3, <1>5

(* What a selection, a sort or a cut keeps is among what there was.        *)
Within(t, s) == \A n \in DOMAIN t : \E i \in DOMAIN s : t[n] = s[i]

(* A cut. *)
LEMMA TakeFits ==
  ASSUME NEW T, NEW s \in Seq(T), NEW n \in Nat
  PROVE  Take(s, n) \in Seq(T) /\ Within(Take(s, n), s)
<1> DEFINE m == IF Len(s) < n THEN Len(s) ELSE n
<1>1. Len(s) \in Nat /\ DOMAIN s = 1 .. Len(s) /\ \A i \in DOMAIN s : s[i] \in T
  BY Elements
<1>2. m \in Nat /\ m <= Len(s)
  BY <1>1
<1>. HIDE DEF m
<1>3. SubSeq(s, 1, m) = [i \in 1 .. m |-> s[i]]
  BY <1>2 DEF SubSeq
<1>4. \A i \in 1 .. m : i \in DOMAIN s /\ s[i] \in T
  BY <1>1, <1>2
<1>5. SubSeq(s, 1, m) \in Seq(T)
  BY <1>2, <1>3, <1>4, IsASeq
<1>6. Within(SubSeq(s, 1, m), s)
  BY <1>3, <1>4 DEF Within
<1>. QED
  BY <1>5, <1>6 DEF Take, m

(* The parts of a stage on lines. *)
LEMMA LinesFit ==
  ASSUME NEW ls \in Seq(LineType), NEW n \in Nat
  PROVE  /\ FilterLines(ls, n) \in Seq(LineType)
         /\ [i \in DOMAIN ls |-> [ls[i] EXCEPT !.extracted = TRUE]] \in Seq(LineType)
         /\ SortLines(ls) \in Seq(LineType)
         /\ Take(ls, n) \in Seq(LineType)
<1>1. DOMAIN ls = 1 .. Len(ls) /\ Len(ls) \in Nat /\ \A i \in DOMAIN ls : ls[i] \in LineType
  BY Elements
<1>2. FilterLines(ls, n) \in Seq(LineType)
  <2> DEFINE P == {i \in DOMAIN ls : ls[i].container = n}
  <2>1. P \in SUBSET DOMAIN ls
    OBVIOUS
  <2>2. At(ls, P) \in Seq(LineType)
    <3>. HIDE DEF P
    <3>. QED
      BY <2>1, AtFits
  <2>. QED
    BY <2>2 DEF FilterLines
<1>3. [i \in DOMAIN ls |-> [ls[i] EXCEPT !.extracted = TRUE]] \in Seq(LineType)
  <2>1. \A i \in 1 .. Len(ls) : [ls[i] EXCEPT !.extracted = TRUE] \in LineType
    BY <1>1 DEF LineType
  <2>2. [i \in 1 .. Len(ls) |-> [ls[i] EXCEPT !.extracted = TRUE]] \in Seq(LineType)
    BY <1>1, <2>1, IsASeq
  <2>. QED
    BY <1>1, <2>2
<1>4. SortLines(ls) \in Seq(LineType)
  <2> DEFINE v == [i \in DOMAIN ls |-> Value(ls[i], "ms")]
  <2>1. \A i \in DOMAIN ls : Value(ls[i], "ms") \in Int
    BY <1>1, ValueFits DEF Columns
  <2>2. v \in [DOMAIN ls -> Int]
    BY <2>1
  <2>3. Descending(ls, v) \in Seq(LineType)
    <3>. HIDE DEF v
    <3>. QED
      BY <2>2, DescendingFits
  <2>. QED
    BY <2>3 DEF SortLines
<1>. QED
  BY <1>2, <1>3, <1>4, TakeFits

(* So does where. *)
LEMMA WhereLinesFit ==
  ASSUME NEW ls \in Seq(LineType), NEW stage
  PROVE  WhereLines(ls, stage) \in Seq(LineType)
<1> DEFINE P == {i \in DOMAIN ls :
                   stage.field # "count" /\ AsNumber(ls[i], stage.field) >= stage.n}
<1>1. P \in SUBSET DOMAIN ls
  OBVIOUS
<1>2. At(ls, P) \in Seq(LineType)
  <2>. HIDE DEF P
  <2>. QED
    BY <1>1, AtFits
<1>. QED
  BY <1>2 DEF WhereLines

(* The parts of a stage on buckets. *)
LEMMA BucketStages ==
  ASSUME NEW b \in Seq(BucketType), NEW stage, NEW n \in Nat
  PROVE  /\ WhereBuckets(b, stage) \in Seq(BucketType) /\ Within(WhereBuckets(b, stage), b)
         /\ SortBuckets(b) \in Seq(BucketType) /\ Within(SortBuckets(b), b)
         /\ Take(b, n) \in Seq(BucketType) /\ Within(Take(b, n), b)
<1>1. DOMAIN b = 1 .. Len(b) /\ Len(b) \in Nat /\ \A i \in DOMAIN b : b[i] \in BucketType
  BY Elements
<1>2. WhereBuckets(b, stage) \in Seq(BucketType) /\ Within(WhereBuckets(b, stage), b)
  <2> DEFINE P == {i \in DOMAIN b : LET m == Measure(b[i], stage.field) IN m # NoneKey /\ m >= stage.n}
  <2>1. P \in SUBSET DOMAIN b
    OBVIOUS
  <2>2. At(b, P) \in Seq(BucketType) /\ \A k \in DOMAIN At(b, P) : \E i \in P : At(b, P)[k] = b[i]
    <3>. HIDE DEF P
    <3>. QED
      BY <2>1, AtFits
  <2>3. WhereBuckets(b, stage) = At(b, P)
    BY DEF WhereBuckets
  <2>. HIDE DEF P
  <2>. QED
    BY <2>1, <2>2, <2>3 DEF Within
<1>3. SortBuckets(b) \in Seq(BucketType) /\ Within(SortBuckets(b), b)
  <2> DEFINE v == [i \in DOMAIN b |-> b[i].key]
  <2>1. v \in [DOMAIN b -> Int]
    BY <1>1 DEF BucketType
  <2>2. /\ Descending(b, v) \in Seq(BucketType) /\ DOMAIN Descending(b, v) = DOMAIN b
        /\ \A k \in DOMAIN b : \E i \in DOMAIN b : Descending(b, v)[k] = b[i]
    <3>. HIDE DEF v
    <3>. QED
      BY <2>1, DescendingFits
  <2>3. SortBuckets(b) = Descending(b, v)
    BY DEF SortBuckets
  <2>. HIDE DEF v
  <2>. QED
    BY <2>2, <2>3 DEF Within
<1>. QED
  BY <1>2, <1>3, TakeFits

(* Every bucket of a result has the figure that its click explains, and    *)
(* there has been a grouping.                                              *)
Faithful(r) ==
  /\ r.stats.by \in Columns
  /\ \A i \in DOMAIN r.stats.buckets :
       r.stats.buckets[i].count = Figure(r, r.stats.buckets[i].key)

(* What a stage does, in one form for each kind. *)
LEMMA StageForms ==
  ASSUME NEW r \in ResultType, NEW stage \in Stages
  PROVE  /\ stage.op \in {"count", "sum"} =>
              /\ stage.field \in Columns
              /\ Stage(r, stage) =
                   [lines |-> r.lines,
                    stats |-> [by |-> stage.field, sums |-> stage.op = "sum",
                               buckets |-> IF stage.op = "sum" THEN Sums(r.lines, stage.field)
                                           ELSE Counts(r.lines, stage.field)]]
         /\ stage.op \in {"where", "sort", "limit"} /\ r.stats # NoStats =>
              \E b \in Seq(BucketType) :
                /\ Within(b, r.stats.buckets)
                /\ Stage(r, stage) =
                     [lines |-> r.lines,
                      stats |-> [by |-> r.stats.by, sums |-> r.stats.sums, buckets |-> b]]
         /\ stage.op \in {"filter", "extract"} \/ (stage.op \in {"where", "sort", "limit"} /\ r.stats = NoStats) =>
              \E ls \in Seq(LineType) : Stage(r, stage) = [lines |-> ls, stats |-> r.stats]
         /\ stage.op \in {"count", "sum", "where", "sort", "limit", "filter", "extract"}
<1>1. /\ r = [lines |-> r.lines, stats |-> r.stats] /\ r.lines \in Seq(LineType)
      /\ r.stats = [by |-> r.stats.by, sums |-> r.stats.sums, buckets |-> r.stats.buckets]
      /\ r.stats.buckets \in Seq(BucketType)
  BY DEF ResultType
<1>2. /\ stage.op \in {"count", "sum"} => stage.field \in Columns
      /\ stage.op \in {"filter", "limit"} => stage.n \in Nat
      /\ stage.op \in {"count", "sum", "where", "sort", "limit", "filter", "extract"}
  BY DEF Stages
<1>3. CASE stage.op = "count"
  BY <1>1, <1>2, <1>3 DEF Stage
<1>4. CASE stage.op = "sum"
  BY <1>1, <1>2, <1>4 DEF Stage
<1>5. CASE stage.op = "filter"
  <2>1. Stage(r, stage) = [lines |-> FilterLines(r.lines, stage.n), stats |-> r.stats]
    BY <1>1, <1>5 DEF Stage
  <2>2. FilterLines(r.lines, stage.n) \in Seq(LineType)
    BY <1>1, <1>2, <1>5, LinesFit
  <2>. QED
    BY <1>5, <2>1, <2>2
<1>6. CASE stage.op = "extract"
  <2> DEFINE ls == [i \in DOMAIN r.lines |-> [r.lines[i] EXCEPT !.extracted = TRUE]]
  <2>1. Stage(r, stage) = [lines |-> ls, stats |-> r.stats]
    BY <1>1, <1>6 DEF Stage
  <2>2. ls \in Seq(LineType)
    BY <1>1, LinesFit
  <2>. HIDE DEF ls
  <2>. QED
    BY <1>6, <2>1, <2>2
<1>7. CASE stage.op = "where"
  <2>1. CASE r.stats # NoStats
    <3>1. Stage(r, stage) = [lines |-> r.lines, stats |-> [by |-> r.stats.by, sums |-> r.stats.sums,
                                buckets |-> WhereBuckets(r.stats.buckets, stage)]]
      BY <1>1, <1>7, <2>1 DEF Stage
    <3>2. WhereBuckets(r.stats.buckets, stage) \in Seq(BucketType) /\ Within(WhereBuckets(r.stats.buckets, stage), r.stats.buckets)
      BY <1>1, BucketStages
    <3>. QED
      BY <1>7, <2>1, <3>1, <3>2
  <2>2. CASE r.stats = NoStats
    <3>1. Stage(r, stage) = [lines |-> WhereLines(r.lines, stage), stats |-> r.stats]
      BY <1>1, <1>7, <2>2 DEF Stage
    <3>2. WhereLines(r.lines, stage) \in Seq(LineType)
      BY <1>1, WhereLinesFit
    <3>. QED
      BY <1>7, <2>2, <3>1, <3>2
  <2>. QED
    BY <2>1, <2>2
<1>8. CASE stage.op = "sort"
  <2>1. CASE r.stats # NoStats
    <3>1. Stage(r, stage) = [lines |-> r.lines, stats |-> [by |-> r.stats.by, sums |-> r.stats.sums,
                                buckets |-> SortBuckets(r.stats.buckets)]]
      BY <1>1, <1>8, <2>1 DEF Stage
    <3>2. SortBuckets(r.stats.buckets) \in Seq(BucketType) /\ Within(SortBuckets(r.stats.buckets), r.stats.buckets)
      BY <1>1, BucketStages
    <3>. QED
      BY <1>8, <2>1, <3>1, <3>2
  <2>2. CASE r.stats = NoStats
    <3>1. Stage(r, stage) = [lines |-> SortLines(r.lines), stats |-> r.stats]
      BY <1>1, <1>8, <2>2 DEF Stage
    <3>2. SortLines(r.lines) \in Seq(LineType)
      BY <1>1, LinesFit
    <3>. QED
      BY <1>8, <2>2, <3>1, <3>2
  <2>. QED
    BY <2>1, <2>2
<1>9. CASE stage.op = "limit"
  <2>0. stage.n \in Nat
    BY <1>2, <1>9
  <2>1. CASE r.stats # NoStats
    <3>1. Stage(r, stage) = [lines |-> r.lines, stats |-> [by |-> r.stats.by, sums |-> r.stats.sums,
                                buckets |-> Take(r.stats.buckets, stage.n)]]
      BY <1>1, <1>9, <2>1 DEF Stage
    <3>2. Take(r.stats.buckets, stage.n) \in Seq(BucketType) /\ Within(Take(r.stats.buckets, stage.n), r.stats.buckets)
      BY <1>1, <2>0, TakeFits
    <3>. QED
      BY <1>9, <2>1, <3>1, <3>2
  <2>2. CASE r.stats = NoStats
    <3>1. Stage(r, stage) = [lines |-> Take(r.lines, stage.n), stats |-> r.stats]
      BY <1>1, <1>9, <2>2 DEF Stage
    <3>2. Take(r.lines, stage.n) \in Seq(LineType)
      BY <1>1, <2>0, TakeFits
    <3>. QED
      BY <1>9, <2>2, <3>1, <3>2
  <2>. QED
    BY <2>1, <2>2
<1>. QED
  BY <1>2, <1>3, <1>4, <1>5, <1>6, <1>7, <1>8, <1>9

(* A stage makes a result of a result. *)
LEMMA StageFits ==
  ASSUME NEW r \in ResultType, NEW stage \in Stages
  PROVE  Stage(r, stage) \in ResultType
<1>1. /\ r.lines \in Seq(LineType) /\ r.stats.by \in Columns \cup {"none"} /\ r.stats.sums \in BOOLEAN
      /\ r.stats \in [by : Columns \cup {"none"}, sums : BOOLEAN, buckets : Seq(BucketType)]
  BY DEF ResultType
<1>2. CASE stage.op \in {"count", "sum"}
  <2> DEFINE b == IF stage.op = "sum" THEN Sums(r.lines, stage.field) ELSE Counts(r.lines, stage.field)
  <2>1. stage.field \in Columns
    BY <1>2, StageForms
  <2>2. b \in Seq(BucketType)
    BY <1>1, <2>1, GroupingTallies DEF Tallied
  <2>3. Stage(r, stage) = [lines |-> r.lines, stats |-> [by |-> stage.field, sums |-> stage.op = "sum", buckets |-> b]]
    BY <1>2, StageForms
  <2>. HIDE DEF b
  <2>. QED
    BY <1>1, <2>1, <2>2, <2>3 DEF ResultType
<1>3. CASE stage.op \in {"where", "sort", "limit"} /\ r.stats # NoStats
  <2>1. PICK b \in Seq(BucketType) :
          Stage(r, stage) = [lines |-> r.lines, stats |-> [by |-> r.stats.by, sums |-> r.stats.sums, buckets |-> b]]
    BY <1>3, StageForms
  <2>. QED
    BY <1>1, <2>1 DEF ResultType
<1>4. CASE stage.op \in {"filter", "extract"} \/ (stage.op \in {"where", "sort", "limit"} /\ r.stats = NoStats)
  <2>1. PICK ls \in Seq(LineType) : Stage(r, stage) = [lines |-> ls, stats |-> r.stats]
    BY <1>4, StageForms
  <2>. QED
    BY <1>1, <2>1 DEF ResultType
<1>. QED
  BY <1>2, <1>3, <1>4, StageForms

(* A grouping makes faithful buckets. *)
LEMMA GroupingIsFaithful ==
  ASSUME NEW r \in ResultType, NEW stage \in Stages, stage.op \in {"count", "sum"}
  PROVE  Faithful(Stage(r, stage))
<1> DEFINE t == Stage(r, stage)
           field == stage.field
           b == IF stage.op = "sum" THEN Sums(r.lines, field) ELSE Counts(r.lines, field)
<1>1. r.lines \in Seq(LineType)
  BY DEF ResultType
<1>2. field \in Columns /\ t = [lines |-> r.lines, stats |-> [by |-> field, sums |-> stage.op = "sum", buckets |-> b]]
  BY StageForms
<1>3. t.stats.by = field /\ t.lines = r.lines /\ t.stats.buckets = b /\ t.stats.sums = (stage.op = "sum")
  BY <1>2
<1>. HIDE DEF t, field
<1>4. ASSUME NEW i \in DOMAIN b PROVE b[i].count = Figure(t, b[i].key)
  <2> DEFINE key == b[i].key
             clicked == Sharing(r.lines, field, FALSE, key)
             zeros == Numbered(Zeros(r.lines, field))
  <2>1. Figure(t, key) = Len(IF stage.op = "sum" THEN Numbered(clicked) ELSE clicked)
                           + IF stage.op = "sum" /\ key = NoneKey THEN Len(zeros) ELSE 0
    BY <1>3 DEF Figure, Unclicked, DisplayedLogs
  <2>2. CASE stage.op = "sum"
    <3>1. b = Sums(r.lines, field)
      BY <2>2
    <3>. HIDE DEF b
    <3>2. b[i].count = Len(Sharing(Numbered(r.lines), field, TRUE, key)) /\ key # 0
      BY <1>1, <1>2, <1>4, <3>1, GroupingTallies DEF Tallied
    <3>3. Len(Sharing(Numbered(r.lines), field, TRUE, key)) = Len(Numbered(Sharing(r.lines, field, TRUE, key)))
      BY <1>1, GroupsAndNumbers
    <3>4. Len(Numbered(Sharing(r.lines, field, TRUE, key))) =
            Len(Numbered(clicked)) + IF key = NoneKey THEN Len(zeros) ELSE 0
      BY <1>1, <1>2, <3>2, SumsAndClicks
    <3>. QED
      BY <2>1, <2>2, <3>2, <3>3, <3>4
  <2>3. CASE stage.op # "sum"
    <3>1. b = Counts(r.lines, field)
      BY <2>3
    <3>. HIDE DEF b
    <3>2. b[i].count = Len(clicked) /\ Len(clicked) \in Nat
      BY <1>1, <1>2, <1>4, <3>1, GroupingTallies, SharingFits DEF Tallied
    <3>. HIDE DEF key, clicked, zeros
    <3>3. Figure(t, key) = Len(clicked) + 0
      BY <2>1, <2>3
    <3>4. b[i].count = Figure(t, key)
      BY <3>2, <3>3
    <3>. QED
      BY <3>4 DEF key
  <2>. QED
    BY <2>2, <2>3
<1>. HIDE DEF b
<1>. QED
  BY <1>2, <1>3, <1>4 DEF Faithful, t

(* And so do the stages behind it that order, select or cut the buckets.   *)
LEMMA FaithfulStands ==
  ASSUME NEW r \in ResultType, NEW stage \in Stages, stage.op \in {"where", "sort", "limit"}, Faithful(r)
  PROVE  Faithful(Stage(r, stage))
<1>1. r.stats # NoStats
  BY DEF Faithful, NoStats, Columns
<1>2. PICK b \in Seq(BucketType) :
        /\ Within(b, r.stats.buckets)
        /\ Stage(r, stage) = [lines |-> r.lines, stats |-> [by |-> r.stats.by, sums |-> r.stats.sums, buckets |-> b]]
  BY <1>1, StageForms
<1> DEFINE t == Stage(r, stage)
<1>3. t.stats.by = r.stats.by /\ t.lines = r.lines /\ t.stats.buckets = b /\ t.stats.sums = r.stats.sums
  BY <1>2
<1>. HIDE DEF t
<1>4. \A key : Figure(t, key) = Figure(r, key)
  BY <1>3 DEF Figure, Unclicked, DisplayedLogs
<1>. QED
  BY <1>2, <1>3, <1>4 DEF Faithful, Within, t

(* The stages one after the other: the recursion of executeMiniSPL has a   *)
(* solution, which starts with the lines alone.                            *)
LEMMA StagesRun ==
  ASSUME NEW ls \in Seq(LineType), NEW q \in Seq(Stages)
  PROVE  \E f \in [0 .. Len(q) -> ResultType] :
           /\ f[0].stats = NoStats
           /\ \A i \in 1 .. Len(q) : f[i] = Stage(f[i - 1], q[i])
           /\ ExecuteMiniSPL(ls, q) = f[Len(q)]
<1> DEFINE L == Len(q)
           start == [lines |-> ls, stats |-> NoStats]
           Runs(n, f) == \A i \in 0 .. n : f[i] = IF i = 0 THEN start ELSE Stage(f[i - 1], q[i])
           Bad == {n \in 0 .. L : ~\E f \in [0 .. n -> ResultType] : Runs(n, f)}
<1>1. L \in Nat /\ \A i \in 1 .. L : q[i] \in Stages
  BY Elements
<1>2. start \in ResultType /\ start.stats = NoStats
  <2>1. << >> \in Seq(BucketType)
    OBVIOUS
  <2>. QED
    BY <2>1 DEF ResultType, NoStats
<1>. HIDE DEF start
<1>3. Bad = {}
  <2>1. SUFFICES ASSUME Bad # {} PROVE FALSE
    OBVIOUS
  <2>2. PICK m \in Bad : \A n \in Bad : m <= n
    <3>1. Bad \in SUBSET Nat
      BY <1>1
    <3>. HIDE DEF Bad
    <3>. QED
      BY <2>1, <3>1, Least
  <2>3. m \in 0 .. L
    BY <2>2
  <2>4. CASE m = 0
    <3> DEFINE z == [i \in 0 .. 0 |-> start]
    <3>1. z \in [0 .. 0 -> ResultType] /\ Runs(0, z)
      BY <1>2
    <3>. QED
      BY <2>2, <2>4, <3>1
  <2>5. CASE m # 0
    <3>1. m \in Nat /\ m - 1 \in 0 .. L /\ m \in 1 .. L
      BY <1>1, <2>3, <2>5
    <3>2. m - 1 \notin Bad
      <4>. HIDE DEF Bad
      <4>. QED
        BY <2>2, <3>1
    <3>3. PICK f \in [0 .. m - 1 -> ResultType] : Runs(m - 1, f)
      BY <3>1, <3>2
    <3> DEFINE last == Stage(f[m - 1], q[m])
               h == [i \in 0 .. m |-> IF i < m THEN f[i] ELSE last]
    <3>4. last \in ResultType
      <4>1. f[m - 1] \in ResultType /\ q[m] \in Stages
        BY <1>1, <3>1
      <4>. QED
        BY <4>1, StageFits
    <3>5. h \in [0 .. m -> ResultType]
      <4>. HIDE DEF last
      <4>. QED
        BY <3>1, <3>4
    <3>6. ASSUME NEW i \in 0 .. m PROVE h[i] = IF i = 0 THEN start ELSE Stage(h[i - 1], q[i])
      <4>1. CASE i < m
        <5>1. i \in 0 .. m - 1 /\ h[i] = f[i]
          BY <3>1, <4>1
        <5>2. i # 0 => h[i - 1] = f[i - 1]
          BY <3>1, <4>1
        <5>. QED
          BY <3>3, <5>1, <5>2
      <4>2. CASE i = m
        <5>1. h[i] = last /\ h[i - 1] = f[m - 1] /\ i # 0
          BY <2>5, <3>1, <4>2
        <5>. QED
          BY <4>2, <5>1
      <4>. QED
        BY <3>1, <4>1, <4>2
    <3>7. Runs(m, h)
      BY <3>6
    <3>. QED
      BY <2>2, <3>5, <3>7
  <2>. QED
    BY <2>4, <2>5
<1>4. PICK f \in [0 .. L -> ResultType] : Runs(L, f)
  <2>1. L \in 0 .. L
    BY <1>1
  <2>. QED
    BY <1>3, <2>1
<1> DEFINE after == CHOOSE g : g = [n \in 0 .. L |-> IF n = 0 THEN start ELSE Stage(g[n - 1], q[n])]
<1>5. f = [n \in 0 .. L |-> IF n = 0 THEN start ELSE Stage(f[n - 1], q[n])]
  BY <1>4
<1>6. after = [n \in 0 .. L |-> IF n = 0 THEN start ELSE Stage(after[n - 1], q[n])]
  BY <1>5, Zenon
<1>7. ExecuteMiniSPL(ls, q) = after[L]
  BY DEF ExecuteMiniSPL, start
<1>. HIDE DEF after
<1>8. after \in [0 .. L -> ResultType]
  <2> DEFINE Off == {n \in 0 .. L : after[n] \notin ResultType}
  <2>1. SUFFICES Off = {}
    BY <1>6
  <2>2. SUFFICES ASSUME Off # {} PROVE FALSE
    OBVIOUS
  <2>3. PICK m \in Off : \A n \in Off : m <= n
    <3>1. Off \in SUBSET Nat
      BY <1>1
    <3>. HIDE DEF Off
    <3>. QED
      BY <2>2, <3>1, Least
  <2>4. m \in 0 .. L /\ after[m] \notin ResultType
    BY <2>3
  <2>5. m # 0
    <3>1. after[0] = start
      BY <1>1, <1>6
    <3>. QED
      BY <1>2, <2>4, <3>1
  <2>6. m - 1 \in 0 .. L /\ m \in 1 .. L /\ m - 1 \notin Off
    <3>1. m - 1 \in 0 .. L /\ m \in 1 .. L /\ m \in Int
      BY <1>1, <2>4, <2>5
    <3>. HIDE DEF Off
    <3>. QED
      BY <2>3, <3>1
  <2>7. after[m - 1] \in ResultType /\ q[m] \in Stages
    BY <1>1, <2>6
  <2>8. after[m] = Stage(after[m - 1], q[m])
    BY <1>6, <2>5, <2>4
  <2>. QED
    BY <2>4, <2>7, <2>8, StageFits
<1>9. after[0].stats = NoStats /\ \A i \in 1 .. L : after[i] = Stage(after[i - 1], q[i])
  <2>1. after[0] = start
    BY <1>1, <1>6
  <2>2. ASSUME NEW i \in 1 .. L PROVE after[i] = Stage(after[i - 1], q[i])
    <3>1. i \in 0 .. L /\ i # 0
      BY <1>1
    <3>. QED
      BY <1>6, <3>1
  <2>. QED
    BY <1>2, <2>1, <2>2
<1>. QED
  BY <1>7, <1>8, <1>9

(* A nonempty set of numbers up to a bound has a greatest element. *)
LEMMA Greatest ==
  ASSUME NEW L \in Nat, NEW S \in SUBSET (1 .. L), S # {}
  PROVE  \E m \in S : \A n \in S : n <= m
<1> DEFINE T == {L - i : i \in S}
<1>1. T \in SUBSET Nat /\ T # {}
  <2>1. \A i \in S : L - i \in Nat /\ L - i \in T
    OBVIOUS
  <2>2. T \in SUBSET Nat
    BY <2>1
  <2>. QED
    BY <2>1, <2>2
<1>2. PICK k \in T : \A n \in T : k <= n
  <2>. HIDE DEF T
  <2>. QED
    BY <1>1, Least
<1>3. PICK m \in S : k = L - m
  BY <1>2
<1>4. ASSUME NEW n \in S PROVE n <= m
  <2>1. L - n \in T
    OBVIOUS
  <2>2. L - m <= L - n
    BY <1>2, <1>3, <2>1
  <2>. QED
    BY <2>2
<1>. QED
  BY <1>4

(* Where no stage behind the last grouping changes the lines, the buckets  *)
(* a pipeline ends with are faithful.                                      *)
LEMMA PipelineFaithful ==
  ASSUME NEW ls \in Seq(LineType), NEW q \in Seq(Stages),
         \A i \in DOMAIN q : q[i].op \in {"filter", "extract"} =>
           \E j \in DOMAIN q : q[j].op \in {"count", "sum"} /\ j > i
  PROVE  ExecuteMiniSPL(ls, q).stats = NoStats \/ Faithful(ExecuteMiniSPL(ls, q))
<1> DEFINE L == Len(q)
           G == {i \in DOMAIN q : q[i].op \in {"count", "sum"}}
<1>1. L \in Nat /\ DOMAIN q = 1 .. L /\ \A i \in 1 .. L : q[i] \in Stages
  BY Elements
<1>2. PICK f \in [0 .. L -> ResultType] :
        /\ f[0].stats = NoStats
        /\ \A i \in 1 .. L : f[i] = Stage(f[i - 1], q[i])
        /\ ExecuteMiniSPL(ls, q) = f[L]
  BY StagesRun
<1>3. ASSUME NEW i \in 1 .. L
      PROVE /\ f[i - 1] \in ResultType /\ q[i] \in Stages /\ f[i] = Stage(f[i - 1], q[i])
            /\ q[i].op \in {"count", "sum", "where", "sort", "limit", "filter", "extract"}
  <2>1. f[i - 1] \in ResultType /\ q[i] \in Stages
    BY <1>1
  <2>. QED
    BY <1>2, <2>1, StageForms
<1>4. CASE G = {}
  <2> DEFINE Off == {n \in 0 .. L : f[n].stats # NoStats}
  <2>1. Off = {}
    <3>1. SUFFICES ASSUME Off # {} PROVE FALSE
      OBVIOUS
    <3>2. PICK m \in Off : \A n \in Off : m <= n
      <4>1. Off \in SUBSET Nat
        BY <1>1
      <4>. HIDE DEF Off
      <4>. QED
        BY <3>1, <4>1, Least
    <3>3. m \in 0 .. L /\ m # 0 /\ f[m].stats # NoStats
      BY <1>2, <3>2
    <3>4. m \in 1 .. L /\ m - 1 \in 0 .. L /\ m - 1 \notin Off
      <4>1. m \in 1 .. L /\ m - 1 \in 0 .. L /\ m \in Int
        BY <1>1, <3>3
      <4>. HIDE DEF Off
      <4>. QED
        BY <3>2, <4>1
    <3>5. f[m - 1].stats = NoStats
      BY <3>4
    <3>6. q[m].op \in {"filter", "extract"} \/ (q[m].op \in {"where", "sort", "limit"} /\ f[m - 1].stats = NoStats)
      BY <1>1, <1>3, <1>4, <3>4, <3>5
    <3>7. PICK l \in Seq(LineType) : f[m] = [lines |-> l, stats |-> f[m - 1].stats]
      BY <1>3, <3>4, <3>6, StageForms
    <3>. QED
      BY <3>3, <3>5, <3>7
  <2>2. L \in 0 .. L
    BY <1>1
  <2>. QED
    BY <1>2, <2>1, <2>2
<1>5. CASE G # {}
  <2>1. PICK last \in G : \A n \in G : n <= last
    <3>1. G \in SUBSET (1 .. L)
      BY <1>1
    <3>. HIDE DEF G
    <3>. QED
      BY <1>1, <1>5, <3>1, Greatest
  <2>2. last \in 1 .. L /\ q[last].op \in {"count", "sum"}
    BY <1>1, <2>1
  <2>3. Faithful(f[last])
    BY <1>3, <2>2, GroupingIsFaithful
  <2>4. ASSUME NEW i \in 1 .. L, i > last PROVE q[i].op \in {"where", "sort", "limit"}
    <3>1. i \notin G /\ \A j \in G : ~(j > i)
      BY <2>1, <2>2, <2>4
    <3>2. q[i].op \notin {"filter", "extract"}
      BY <1>1, <3>1
    <3>3. q[i].op \notin {"count", "sum"}
      BY <1>1, <3>1
    <3>. QED
      BY <1>3, <3>2, <3>3
  <2> DEFINE Off == {n \in last .. L : ~Faithful(f[n])}
  <2>5. Off = {}
    <3>1. SUFFICES ASSUME Off # {} PROVE FALSE
      OBVIOUS
    <3>2. PICK m \in Off : \A n \in Off : m <= n
      <4>1. Off \in SUBSET Nat
        BY <1>1, <2>2
      <4>. HIDE DEF Off
      <4>. QED
        BY <3>1, <4>1, Least
    <3>3. m \in last .. L /\ m # last /\ ~Faithful(f[m])
      BY <2>3, <3>2
    <3>4. m \in 1 .. L /\ m > last /\ m - 1 \in last .. L /\ m - 1 \notin Off
      <4>1. m \in 1 .. L /\ m > last /\ m - 1 \in last .. L /\ m \in Int
        BY <1>1, <2>2, <3>3
      <4>. HIDE DEF Off
      <4>. QED
        BY <3>2, <4>1
    <3>5. Faithful(f[m - 1])
      BY <3>4
    <3>. QED
      BY <1>3, <2>4, <3>3, <3>4, <3>5, FaithfulStands
  <2>6. L \in last .. L
    BY <1>1, <2>2
  <2>. QED
    BY <1>2, <2>5, <2>6
<1>. QED
  BY <1>4, <1>5

(* What the view shows drills down. *)
LEMMA DrillDownHolds ==
  ASSUME lines \in Seq(LineType), query \in Queries
  PROVE  DrillDown
<1>1. query \in Seq(Stages)
  BY LogStreamAssumption
<1>2. SUFFICES ASSUME GroupingStands PROVE
        LET r == ExecuteMiniSPL(lines, query)
        IN \A i \in DOMAIN r.stats.buckets :
             r.stats.buckets[i].count = Figure(r, r.stats.buckets[i].key)
  BY DEF DrillDown
<1> DEFINE r == ExecuteMiniSPL(lines, query)
<1>3. \A i \in DOMAIN query : query[i].op \in {"filter", "extract"} =>
        \E j \in DOMAIN query : query[j].op \in {"count", "sum"} /\ j > i
  BY <1>2 DEF GroupingStands, Groupings
<1>4. r.stats = NoStats \/ Faithful(r)
  BY <1>1, <1>3, PipelineFaithful
<1>5. r.stats = NoStats => DOMAIN r.stats.buckets = {}
  <2>. HIDE DEF r
  <2>. QED
    BY DEF NoStats
<1>. HIDE DEF r
<1>6. \A i \in DOMAIN r.stats.buckets :
        r.stats.buckets[i].count = Figure(r, r.stats.buckets[i].key)
  BY <1>4, <1>5 DEF Faithful
<1>. QED
  BY <1>6 DEF r

(* In the live log view the figure of every bucket is the number of lines  *)
(* that a click on it displays, but for the lines with a 0, which a sum    *)
(* counts under (none) and no click on that displays: at any time, for any *)
(* lines and any pipeline in which no stage behind the last grouping       *)
(* changes the lines.                                                      *)
THEOREM FiguresDrillDown == LogSpec => []DrillDown
<1>1. LogInv /\ Control => DrillDown
  <2> SUFFICES ASSUME LogInv, Control PROVE DrillDown
    OBVIOUS
  <2>1. lines \in Seq(Line)
    BY DEF LogInv, LogTypes
  <2>2. lines \in Seq(LineType)
    BY <2>1, LinesTyped
  <2>. QED
    BY <2>2, DrillDownHolds DEF Control
<1>. QED
  BY <1>1, LogInvInit, LogInvStep, ControlInit, ControlStep, PTL DEF LogSpec

-----------------------------------------------------------------------------
(* The row of a machine, for any number of handlers. *)

Ops == {"none"} \cup Savers \cup Plain

(* A row that is called blocked is marked so: only then do a registration  *)
(* and a row from before agree on what an operator asked for.              *)
Whole(r) == r.status = "BLOCKED" => r.blocked

(* A row that says the same of what an operator asked for.                 *)
Alike(t, r) == t \in Rows /\ Whole(t) /\ t.there = r.there /\ t.blocked = r.blocked

Sound(job) ==
  /\ job.op \in Savers => Whole(job.row)
  /\ job.op = "recheck" => job.row.there /\ ~job.row.blocked /\ Whole(job.row)

(* Who has a copy in hand would not undo what the operator asked for.      *)
Holds == ~raced => Keeps(row, wish) /\ \A j \in Jobs : ~Undoes(jobs[j], wish)

RowInv == RowTypeOK /\ Whole(row) /\ (\A j \in Jobs : Sound(jobs[j])) /\ Holds

-----------------------------------------------------------------------------
(* What the writers make of a row is a row, blocked where it was, but for  *)
(* those that mean to change that.                                         *)
LEMMA Written ==
  ASSUME NEW r \in Rows, Whole(r)
  PROVE  /\ Provisioned \in Rows /\ NoRow \in Rows /\ Whole(Provisioned) /\ Whole(NoRow)
         /\ Provisioned.there /\ ~Provisioned.blocked /\ ~NoRow.there
         /\ Barred(r) \in Rows /\ Whole(Barred(r)) /\ Barred(r).blocked
         /\ Lifted(r) \in Rows /\ Whole(Lifted(r)) /\ ~Lifted(r).blocked
         /\ Barred(r).there = r.there /\ Lifted(r).there = r.there
         /\ Alike(Up(r), r) /\ Alike(TimedOut(r), r) /\ Alike(Restarted(r), r)
         /\ Alike(Registered(r), r)
         /\ Alike([r EXCEPT !.silent = FALSE], r) /\ Alike([r EXCEPT !.silent = TRUE], r)
<1> USE DEF Rows, Whole, Alike
<1>1. Provisioned \in Rows /\ NoRow \in Rows /\ Whole(Provisioned) /\ Whole(NoRow)
      /\ Provisioned.there /\ ~Provisioned.blocked /\ ~NoRow.there
  BY DEF Provisioned, NoRow
<1>2. Alike(Up(r), r)
  BY DEF Up
<1>3. /\ Barred(r) \in Rows /\ Whole(Barred(r)) /\ Barred(r).blocked
      /\ Barred(r).there = r.there
  BY DEF Barred
<1>4. /\ Lifted(r) \in Rows /\ Whole(Lifted(r)) /\ ~Lifted(r).blocked
      /\ Lifted(r).there = r.there
  BY <1>2 DEF Lifted, Up
<1>5. /\ Alike(TimedOut(r), r) /\ Alike(Restarted(r), r)
      /\ Alike([r EXCEPT !.silent = FALSE], r) /\ Alike([r EXCEPT !.silent = TRUE], r)
  BY DEF TimedOut, Restarted
<1>6. Alike(Registered(r), r)
  <2>1. CASE Refuses(r)
    BY <1>3, <2>1 DEF Registered, Refuses
  <2>2. CASE ~Refuses(r)
    BY <1>4, <2>2 DEF Registered, Refuses
  <2>. QED
    BY <2>1, <2>2
<1>. QED
  BY <1>1, <1>2, <1>3, <1>4, <1>5, <1>6

(* Two rows that agree on these columns are equally good.                  *)
LEMMA SameKeeps ==
  ASSUME NEW r, NEW t, NEW w, t.there = r.there, t.blocked = r.blocked
  PROVE  Keeps(t, w) <=> Keeps(r, w)
BY DEF Keeps

(* A handler takes up something: the rest go on as they were.              *)
LEMMA Doing ==
  ASSUME RowTypeOK, NEW j \in Jobs, NEW op \in Ops, NEW r \in Rows, Do(j, op, r)
  PROVE  /\ jobs' \in [Jobs -> [op : Ops, row : Rows]]
         /\ jobs'[j] = [op |-> op, row |-> r]
         /\ \A k \in Jobs : k = j \/ jobs'[k] = jobs[k]
BY DEF RowTypeOK, Do, Ops

(* So it is for one that has done.                                         *)
LEMMA Finishing ==
  ASSUME RowTypeOK, NEW j \in Jobs, Finish(j)
  PROVE  Do(j, "none", NoRow)
BY DEF Finish, Do, Idler

(* What the handlers of a step have in hand afterwards: one takes up a job *)
(* that is sound, or none does.                                            *)
Now(job) == \/ \E j \in Jobs : Do(j, job.op, job.row)
            \/ UNCHANGED jobs /\ job = Idler

(* A step keeps the invariant when the row it leaves and the job it takes  *)
(* up are as the operator asked for: before, or in this step.              *)
LEMMA Proper ==
  ASSUME RowInv, NEW job \in [op : Ops, row : Rows], Sound(job), Now(job),
         row' \in Rows, Whole(row'), alive' \in BOOLEAN, acts' \in 0 .. MaxActs,
         \/ NoWish /\ (~raced => Keeps(row', wish) /\ ~Undoes(job, wish))
         \/ \E w \in {"none", "blocked", "deleted"} :
              Wishes(w) /\ Keeps(row', w) /\ ~Undoes(job, w)
  PROVE  RowInv'
<1>1. /\ jobs' \in [Jobs -> [op : Ops, row : Rows]]
      /\ \A k \in Jobs : jobs'[k] = job \/ jobs'[k] = jobs[k]
  <2>1. CASE UNCHANGED jobs
    BY <2>1 DEF RowInv, RowTypeOK, Ops
  <2>2. ASSUME NEW j \in Jobs, Do(j, job.op, job.row)
        PROVE  /\ jobs' \in [Jobs -> [op : Ops, row : Rows]]
               /\ \A k \in Jobs : jobs'[k] = job \/ jobs'[k] = jobs[k]
    <3>1. job.op \in Ops /\ job.row \in Rows /\ job = [op |-> job.op, row |-> job.row]
      OBVIOUS
    <3>. QED
      BY <2>2, <3>1, Doing DEF RowInv
  <2>. QED
    BY <2>1, <2>2 DEF Now
<1>2. wish' \in {"none", "blocked", "deleted"} /\ raced' \in BOOLEAN
  BY DEF RowInv, RowTypeOK, NoWish, Wishes
<1>3. RowTypeOK'
  BY <1>1, <1>2 DEF RowTypeOK, Ops
<1>4. \A k \in Jobs : Sound(jobs'[k])
  BY <1>1 DEF RowInv
<1>5. Holds'
  <2>1. CASE NoWish /\ (~raced => Keeps(row', wish) /\ ~Undoes(job, wish))
    BY <1>1, <2>1 DEF RowInv, Holds, NoWish
  <2>2. ASSUME NEW w, Wishes(w), Keeps(row', w), ~Undoes(job, w)
        PROVE  Holds'
    BY <1>1, <2>2 DEF Holds, Wishes
  <2>. QED
    BY <2>1, <2>2
<1>. QED
  BY <1>3, <1>4, <1>5 DEF RowInv

(* A job that writes no copy undoes nothing. *)
LEMMA PlainSound ==
  ASSUME NEW op \in {"none", "sample", "update", "purge"}
  PROVE  /\ [op |-> op, row |-> NoRow] \in [op : Ops, row : Rows]
         /\ Sound([op |-> op, row |-> NoRow])
         /\ \A w : ~Undoes([op |-> op, row |-> NoRow], w)
BY DEF Ops, Savers, Plain, Rows, NoRow, Sound, Undoes

(* Copies of the row that keep what it says of the operator's wishes.      *)
LEMMA CopySound ==
  ASSUME NEW op \in Savers \cup {"recheck"}, NEW r \in Rows, Whole(r),
         r.there = row.there, r.blocked = row.blocked, row.there, op = "recheck" => ~row.blocked
  PROVE  /\ [op |-> op, row |-> r] \in [op : Ops, row : Rows]
         /\ Sound([op |-> op, row |-> r])
         /\ \A w : Keeps(row, w) => ~Undoes([op |-> op, row |-> r], w)
<1>1. \A w : Keeps(row, w) <=> Keeps(r, w)
  BY SameKeeps
<1>. QED
  BY <1>1 DEF Ops, Savers, Plain, Sound, Undoes

-----------------------------------------------------------------------------
(* Every machine begins as one that was provisioned and is not blocked.    *)
LEMMA RowInvInit == RowInit => RowInv
<1> SUFFICES ASSUME RowInit PROVE RowInv
  OBVIOUS
<1> USE DEF RowInit
<1>1. /\ Provisioned \in Rows /\ Whole(Provisioned) /\ NoRow \in Rows
      /\ Provisioned.there /\ ~Provisioned.blocked
  BY DEF Provisioned, NoRow, Rows, Whole
<1>2. RowTypeOK
  <2>1. Idler \in [op : {"none"} \cup Savers \cup Plain, row : Rows]
    BY <1>1 DEF Idler
  <2>2. acts \in 0 .. MaxActs
    BY MachineRowAssumption
  <2>. QED
    BY <1>1, <2>1, <2>2 DEF RowTypeOK
<1>3. \A j \in Jobs : Sound(jobs[j]) /\ ~Undoes(jobs[j], wish)
  BY PlainSound DEF Idler
<1>. QED
  BY <1>1, <1>2, <1>3 DEF RowInv, Holds, Keeps

(* Requests of the agent. *)
LEMMA AgentStep ==
  ASSUME RowInv,
         \/ \E j \in Jobs :
              \/ Heartbeat(j) \/ Recheck(j) \/ ReceiveMetrics(j) \/ SaveMetric(j)
              \/ UpdateRow(j) \/ RegisterOrUpdateServer(j)
         \/ Authenticate \/ AgentComesOrGoes
  PROVE  RowInv'
<1> DEFINE Plainly(op) == [op |-> op, row |-> NoRow]
<1>0. /\ row \in Rows /\ Whole(row) /\ alive \in BOOLEAN /\ acts \in 0 .. MaxActs
      /\ (~raced => Keeps(row, wish))
      /\ (Act => acts' \in 0 .. MaxActs)
  BY MachineRowAssumption DEF RowInv, RowTypeOK, Holds, Act
<1>1. ASSUME NEW j \in Jobs, Heartbeat(j) PROVE RowInv'
  <2>1. PICK op \in {"heartbeat", "recheck"} : Do(j, op, Up(row))
    BY <1>1 DEF Heartbeat
  <2>2. /\ Up(row) \in Rows /\ Whole(Up(row))
        /\ Up(row).there = row.there /\ Up(row).blocked = row.blocked
    BY <1>0, Written DEF Alike
  <2> DEFINE job == [op |-> op, row |-> Up(row)]
  <2>3. /\ job \in [op : Ops, row : Rows] /\ Sound(job)
        /\ \A w : Keeps(row, w) => ~Undoes(job, w)
    BY <1>1, <2>2, CopySound DEF Heartbeat, Refuses, Savers
  <2>4. Now(job)
    BY <2>1 DEF Now
  <2>. QED
    BY <1>0, <1>1, <2>3, <2>4, Proper DEF Heartbeat, NoWish
<1>2. ASSUME NEW j \in Jobs, Recheck(j) PROVE RowInv'
  <2>1. CASE row.there /\ Refuses(row)
    <3>1. Now(Plainly("none"))
      BY <1>2, <2>1, Finishing DEF Recheck, Now, RowInv
    <3>. QED
      BY <1>0, <1>2, <3>1, Proper, PlainSound DEF Recheck, NoWish
  <2>2. CASE ~(row.there /\ Refuses(row))
    <3> DEFINE copy == jobs[j].row
               job == [op |-> "heartbeat", row |-> copy]
    <3>1. /\ copy \in Rows /\ jobs[j].op = "recheck"
          /\ copy.there /\ ~copy.blocked /\ Whole(copy)
      BY <1>2 DEF Recheck, RowInv, RowTypeOK, Sound
    <3>2. job \in [op : Ops, row : Rows] /\ Sound(job) /\ Now(job)
      BY <1>2, <2>2, <3>1 DEF Ops, Savers, Sound, Now, Recheck
    <3>3. ~raced => ~Undoes(job, wish)
      <4>1. wish = "none" => Keeps(copy, wish)
        BY <3>1 DEF Keeps
      <4>2. ~raced => wish # "blocked"
        BY <1>0, <2>2 DEF Keeps, Refuses
      <4>3. ~raced => ~Undoes(jobs[j], wish)
        BY DEF RowInv, Holds
      <4>4. wish = "deleted" => Undoes(jobs[j], wish)
        BY <3>1 DEF Undoes, Keeps
      <4>. QED
        BY <4>1, <4>2, <4>3, <4>4 DEF Undoes, RowInv, RowTypeOK
    <3>. QED
      BY <1>0, <1>2, <3>2, <3>3, Proper DEF Recheck, NoWish
  <2>. QED
    BY <2>1, <2>2
<1>3. ASSUME NEW j \in Jobs, NEW next \in {"sample", "update"}, Identify(j, next)
      PROVE  RowInv'
  <2>1. \A op \in {"none", next} : Do(j, op, NoRow) => Now(Plainly(op))
    BY DEF Now
  <2>2. CASE row.there
    <3>1. \E op \in {"none", next} : Now(Plainly(op))
      BY <1>3, <2>1, <2>2, Finishing DEF Identify, RowInv
    <3>. QED
      BY <1>0, <1>3, <2>2, <3>1, Proper, PlainSound DEF Identify, NoWish
  <2>3. CASE ~row.there
    <3>1. Provisioned \in Rows /\ Whole(Provisioned) /\ Keeps(Provisioned, "none")
      BY <1>0, Written DEF Keeps
    <3>2. Now(Plainly(next)) /\ row' = Provisioned /\ Wishes("none")
      BY <1>3, <2>1, <2>3 DEF Identify
    <3>. QED
      BY <1>0, <1>3, <3>1, <3>2, Proper, PlainSound DEF Identify
  <2>. QED
    BY <2>2, <2>3
<1>4. ASSUME NEW j \in Jobs, UpdateRow(j) PROVE RowInv'
  <2>1. Now(Plainly("none"))
    BY <1>4, Finishing DEF UpdateRow, Now, RowInv
  <2>2. /\ row' \in Rows /\ Whole(row')
        /\ row'.there = row.there /\ row'.blocked = row.blocked
    BY <1>0, <1>4, Written DEF UpdateRow, Alike
  <2>3. ~raced => Keeps(row', wish)
    BY <1>0, <2>2, SameKeeps
  <2>. QED
    BY <1>0, <1>4, <2>1, <2>2, <2>3, Proper, PlainSound DEF UpdateRow, NoWish
<1>5. ASSUME NEW j \in Jobs, RegisterOrUpdateServer(j) PROVE RowInv'
  <2>1. CASE row.there
    <3>1. /\ Registered(row) \in Rows /\ Whole(Registered(row))
          /\ Registered(row).there = row.there /\ Registered(row).blocked = row.blocked
      BY <1>0, Written DEF Alike
    <3> DEFINE job == [op |-> "register", row |-> Registered(row)]
    <3>2. /\ job \in [op : Ops, row : Rows] /\ Sound(job)
          /\ \A w : Keeps(row, w) => ~Undoes(job, w)
      BY <2>1, <3>1, CopySound DEF Savers
    <3>3. Now(job)
      BY <1>5, <2>1 DEF RegisterOrUpdateServer, Now
    <3>. QED
      BY <1>0, <1>5, <2>1, <3>2, <3>3, Proper DEF RegisterOrUpdateServer, NoWish
  <2>2. CASE ~row.there
    <3>1. Provisioned \in Rows /\ Whole(Provisioned) /\ Keeps(Provisioned, "none")
      BY <1>0, Written DEF Keeps
    <3>2. Now(Plainly("none")) /\ row' = Provisioned /\ Wishes("none")
      BY <1>5, <2>2 DEF RegisterOrUpdateServer, Now, Idler
    <3>. QED
      BY <1>0, <1>5, <3>1, <3>2, Proper, PlainSound DEF RegisterOrUpdateServer
  <2>. QED
    BY <2>1, <2>2
<1>6. CASE Authenticate
  <2>1. /\ row' \in Rows /\ Whole(row')
        /\ row'.there = row.there /\ row'.blocked = row.blocked
    BY <1>0, <1>6, Written DEF Authenticate, Alike
  <2>2. Now(Plainly("none"))
    BY <1>6 DEF Authenticate, Now, Idler
  <2>3. ~raced => Keeps(row', wish)
    BY <1>0, <2>1, SameKeeps
  <2>. QED
    BY <1>0, <1>6, <2>1, <2>2, <2>3, Proper, PlainSound DEF Authenticate, NoWish
<1>7. CASE AgentComesOrGoes
  <2>1. Now(Plainly("none")) /\ alive' \in BOOLEAN
    BY <1>7 DEF AgentComesOrGoes, Now, Idler
  <2>. QED
    BY <1>0, <1>7, <2>1, Proper, PlainSound DEF AgentComesOrGoes, NoWish
<1>. QED
  BY <1>1, <1>2, <1>3, <1>4, <1>5, <1>6, <1>7 DEF ReceiveMetrics, SaveMetric

(* The monitor, time, operators and the saves. *)
LEMMA OthersStep ==
  ASSUME RowInv,
         \/ \E j \in Jobs :
              PurgeOfflineServers(j) \/ PurgeServerCascade(j) \/ Rewrite(j) \/ Save(j)
         \/ StatusMonitor \/ Silence \/ BlockServer \/ UnblockServer \/ DeleteServer
  PROVE  RowInv'
<1> DEFINE Plainly(op) == [op |-> op, row |-> NoRow]
<1>0. /\ row \in Rows /\ Whole(row) /\ alive \in BOOLEAN /\ acts \in 0 .. MaxActs
      /\ (~raced => Keeps(row, wish))
      /\ (Act => acts' \in 0 .. MaxActs)
  BY MachineRowAssumption DEF RowInv, RowTypeOK, Holds, Act
<1>1. ASSUME NEW j \in Jobs, PurgeOfflineServers(j) PROVE RowInv'
  <2>1. Now(Plainly("purge"))
    BY <1>1 DEF PurgeOfflineServers, Now
  <2>. QED
    BY <1>0, <1>1, <2>1, Proper, PlainSound DEF PurgeOfflineServers, NoWish
<1>2. ASSUME NEW j \in Jobs, PurgeServerCascade(j) PROVE RowInv'
  <2>1. Now(Plainly("none"))
    BY <1>2, Finishing DEF PurgeServerCascade, Now, RowInv
  <2>2. NoRow \in Rows /\ Whole(NoRow) /\ Keeps(NoRow, "deleted")
    BY <1>0, Written DEF Keeps
  <2>. QED
    BY <1>0, <1>2, <2>1, <2>2, Proper, PlainSound DEF PurgeServerCascade
<1>3. ASSUME NEW j \in Jobs, NEW op \in Savers, NEW r \in {row, Restarted(row), TimedOut(row)},
             Do(j, op, r), row.there, UNCHANGED <<row, alive>>, NoWish,
             acts' \in 0 .. MaxActs
      PROVE  RowInv'
  <2>1. r \in Rows /\ Whole(r) /\ r.there = row.there /\ r.blocked = row.blocked
    <3>1. Alike(TimedOut(row), row) /\ Alike(Restarted(row), row)
      BY <1>0, Written
    <3>. QED
      BY <1>0, <1>3, <3>1 DEF Alike
  <2> DEFINE job == [op |-> op, row |-> r]
  <2>2. /\ job \in [op : Ops, row : Rows] /\ Sound(job)
        /\ \A w : Keeps(row, w) => ~Undoes(job, w)
    BY <1>3, <2>1, CopySound DEF Savers
  <2>3. Now(job)
    BY <1>3 DEF Now
  <2>. QED
    BY <1>0, <1>3, <2>2, <2>3, Proper
<1>4. ASSUME NEW j \in Jobs, Save(j) PROVE RowInv'
  <2>1. jobs[j].row \in Rows /\ Whole(jobs[j].row)
    BY <1>4 DEF Save, RowInv, RowTypeOK, Sound
  <2>2. ~raced => Keeps(jobs[j].row, wish)
    BY <1>4 DEF Save, RowInv, Holds, Undoes
  <2>3. Now(Plainly("none"))
    BY <1>4, Finishing DEF Save, Now, RowInv
  <2>. QED
    BY <1>0, <1>4, <2>1, <2>2, <2>3, Proper, PlainSound DEF Save, NoWish
<1>5. CASE Silence
  <2>1. /\ row' \in Rows /\ Whole(row')
        /\ row'.there = row.there /\ row'.blocked = row.blocked
    BY <1>0, <1>5, Written DEF Silence, Alike
  <2>2. \A j \in Jobs : /\ jobs[j] \in [op : Ops, row : Rows]
                         /\ jobs'[j] \in [op : Ops, row : Rows]
                         /\ jobs'[j].op = jobs[j].op
                         /\ jobs'[j].row = [jobs[j].row EXCEPT !.silent = TRUE]
    BY <1>5 DEF Silence, RowInv, RowTypeOK, Ops, Rows
  <2>3. \A j \in Jobs : /\ jobs'[j].row.there = jobs[j].row.there
                         /\ jobs'[j].row.blocked = jobs[j].row.blocked
                         /\ jobs'[j].row.status = jobs[j].row.status
    BY <2>2 DEF Rows
  <2>4. \A j \in Jobs : \A w : Undoes(jobs'[j], w) <=> Undoes(jobs[j], w)
    BY <2>2, <2>3 DEF Undoes, Keeps
  <2>5. \A j \in Jobs : Sound(jobs'[j])
    BY <2>2, <2>3 DEF RowInv, Sound, Whole
  <2>6. UNCHANGED <<alive, acts, wish, raced>>
    BY <1>5 DEF Silence, NoWish
  <2>7. RowTypeOK'
    <3>1. jobs' \in [Jobs -> [op : Ops, row : Rows]]
      BY <1>5, <2>2 DEF Silence
    <3>. QED
      BY <2>1, <2>6, <3>1 DEF RowInv, RowTypeOK, Ops
  <2>8. Holds'
    BY <1>0, <2>1, <2>4, <2>6, SameKeeps DEF RowInv, Holds
  <2>. QED
    BY <2>1, <2>5, <2>7, <2>8 DEF RowInv
<1>6. ASSUME NEW w \in {"none", "blocked", "deleted"}, Wishes(w), row' \in Rows, Whole(row'),
             Keeps(row', w), UNCHANGED <<jobs, alive>>, acts' \in 0 .. MaxActs
      PROVE  RowInv'
  <2>1. Now(Plainly("none"))
    BY <1>6 DEF Now, Idler
  <2>. QED
    BY <1>0, <1>6, <2>1, Proper, PlainSound
<1>7. CASE BlockServer
  <2>1. Barred(row) \in Rows /\ Whole(Barred(row)) /\ Keeps(Barred(row), "blocked")
    BY <1>0, <1>7, Written DEF BlockServer, Keeps
  <2>. QED
    BY <1>0, <1>6, <1>7, <2>1 DEF BlockServer
<1>8. CASE UnblockServer
  <2>1. Lifted(row) \in Rows /\ Whole(Lifted(row)) /\ Keeps(Lifted(row), "none")
    BY <1>0, <1>8, Written DEF UnblockServer, Keeps
  <2>. QED
    BY <1>0, <1>6, <1>8, <2>1 DEF UnblockServer
<1>9. CASE DeleteServer
  <2>1. NoRow \in Rows /\ Whole(NoRow) /\ Keeps(NoRow, "deleted")
    BY <1>0, Written DEF Keeps
  <2>. QED
    BY <1>0, <1>6, <1>9, <2>1 DEF DeleteServer
<1>10. CASE StatusMonitor
  BY <1>0, <1>3, <1>10 DEF StatusMonitor, Overdue, Jobs, Savers
<1>11. ASSUME NEW j \in Jobs, Rewrite(j) PROVE RowInv'
  BY <1>0, <1>3, <1>11 DEF Rewrite, Savers
<1>. QED
  BY <1>1, <1>2, <1>4, <1>5, <1>7, <1>8, <1>9, <1>10, <1>11

-----------------------------------------------------------------------------
(* Every step keeps the invariant. *)
LEMMA RowInvStep == RowInv /\ [RowStep]_rowVars => RowInv'
<1> SUFFICES ASSUME RowInv, [RowStep]_rowVars PROVE RowInv'
  OBVIOUS
<1>1. CASE RowStep
  <2>1. Handlers \subseteq Jobs /\ Beat \in Jobs
    BY DEF Jobs
  <2>. QED
    BY <1>1, <2>1, AgentStep, OthersStep DEF RowStep, Proceeds
<1>2. CASE UNCHANGED rowVars
  BY <1>2 DEF rowVars, RowInv, RowTypeOK, Holds
<1>. QED
  BY <1>1, <1>2

(* Through the monitor, samples that were under way, purges and            *)
(* registrations a machine stays blocked, deleted or open, unless a        *)
(* handler had an older copy in hand when the operator asked for it.       *)
THEOREM WishesHold == RowSpec => []OperatorHolds
<1>1. RowInv => OperatorHolds
  BY DEF RowInv, Holds, OperatorHolds
<1>. QED
  BY <1>1, RowInvInit, RowInvStep, PTL DEF RowSpec

(* The row and what the handlers have in hand stay within their types. *)
THEOREM RowTypeCorrect == RowSpec => []RowTypeOK
<1>1. RowInv => RowTypeOK
  BY DEF RowInv
<1>. QED
  BY <1>1, RowInvInit, RowInvStep, PTL DEF RowSpec

-----------------------------------------------------------------------------
(* The list of machines: its state stays within its type. *)
ListInv == ListTypeOK /\ fetches \in Seq(RequestType)

(* A request is given up or dealt with. *)
LEMMA RemovedRequest ==
  ASSUME NEW S, NEW s \in Seq(S), NEW i \in DOMAIN s
  PROVE  RemoveAt(s, i) \in Seq(S) /\ Len(RemoveAt(s, i)) <= Len(s)
<1> DEFINE before == SubSeq(s, 1, i - 1)
           after  == SubSeq(s, i + 1, Len(s))
<1>1. DOMAIN s = 1 .. Len(s) /\ Len(s) \in Nat /\ i \in 1 .. Len(s)
  BY LenProperties
<1>2. \A k \in 1 .. Len(s) : s[k] \in S
  BY ElementOfSeq
<1>3. before \in Seq(S) /\ Len(before) = IF 1 <= i - 1 THEN i - 1 - 1 + 1 ELSE 0
  BY <1>1, <1>2, SubSeqProperties
<1>4. after \in Seq(S) /\ Len(after) = IF i + 1 <= Len(s) THEN Len(s) - (i + 1) + 1 ELSE 0
  BY <1>1, <1>2, SubSeqProperties
<1>5. RemoveAt(s, i) = before \o after
  BY DEF RemoveAt
<1>. HIDE DEF before, after
<1>6. before \o after \in Seq(S) /\ Len(before \o after) = Len(before) + Len(after)
  BY <1>3, <1>4, ConcatProperties
<1>. QED
  BY <1>1, <1>3, <1>4, <1>5, <1>6

(* One more is made, or none. *)
LEMMA MoreRequests ==
  ASSUME ListInv, \/ FetchRoom /\ fetches' = Append(fetches, Request)
                  \/ UNCHANGED fetches
  PROVE  fetches' \in Seq(RequestType) /\ Len(fetches') <= MaxFetches
<1>1. Request \in RequestType
  BY DEF Request, RequestType, Status
<1>2. fetches \in Seq(RequestType) /\ Len(fetches) \in Nat /\ Len(fetches) <= MaxFetches
  BY LenProperties DEF ListInv, ListTypeOK
<1>. QED
  BY <1>1, <1>2, ServerListAssumption DEF FetchRoom

(* The effect selects a machine of the list, or leaves the selection. *)
LEMMA Reselected ==
  ASSUME NEW id \in Machines \cup {NoMachine, "ALL"}, Reselect(id)
  PROVE  picked' \in Machines \cup {NoMachine, "ALL"}
BY DEF Reselect, Present, Online

(* It begins empty, with a request under way. *)
LEMMA ListInvInit == ListInit => ListInv
<1> SUFFICES ASSUME ListInit PROVE ListInv
  OBVIOUS
<1>1. Request \in RequestType
  BY DEF Request, RequestType, Status
<1>. HIDE DEF Request
<1>2. fetches = <<Request>>
  BY DEF ListInit
<1>3. fetches \in Seq(RequestType) /\ Len(fetches) = 1 /\ \A i \in DOMAIN fetches : fetches[i] \in RequestType
  BY <1>1, <1>2
<1>. QED
  BY <1>3, ServerListAssumption DEF ListInit, ListInv, ListTypeOK, Status

(* Every step keeps the invariant. *)
LEMMA ListInvStep == ListInv /\ [ListStep]_listVars => ListInv'
<1> SUFFICES ASSUME ListInv, [ListStep]_listVars PROVE ListInv'
  OBVIOUS
<1>1. /\ fetches \in Seq(RequestType) /\ DOMAIN fetches = 1 .. Len(fetches) /\ Len(fetches) \in Nat
      /\ \A i \in DOMAIN fetches : fetches[i] \in RequestType
      /\ machine \in [Machines -> Status] /\ servers \in [Machines -> Status]
      /\ picked \in Machines \cup {NoMachine, "ALL"}
      /\ Len(fetches) <= MaxFetches /\ samples \subseteq Machines
      /\ purging \in {"no", "sent", "answered", "failed"}
      /\ listMoves \in 0 .. MaxListMoves /\ listFaults \in 0 .. MaxListFaults
  BY LenProperties DEF ListInv, ListTypeOK
<1>2. /\ ListMove => listMoves' \in 0 .. MaxListMoves
      /\ ListFault => listFaults' \in 0 .. MaxListFaults
  BY <1>1, ServerListAssumption DEF ListMove, ListFault
<1>3. ASSUME fetches' \in Seq(RequestType), Len(fetches') <= MaxFetches,
             machine' \in [Machines -> Status], servers' \in [Machines -> Status],
             picked' \in Machines \cup {NoMachine, "ALL"}, samples' \subseteq Machines,
             purging' \in {"no", "sent", "answered", "failed"},
             listMoves' \in 0 .. MaxListMoves, listFaults' \in 0 .. MaxListFaults
      PROVE  ListInv'
  <2>1. \A i \in DOMAIN fetches' : fetches'[i] \in RequestType
    BY <1>3, ElementOfSeq, LenProperties
  <2>. QED
    BY <1>3, <2>1 DEF ListInv, ListTypeOK
<1>4. ASSUME NEW m \in Machines, Sample(m) \/ Deleted(m) PROVE ListInv'
  BY <1>1, <1>2, <1>3, <1>4 DEF Sample, Deleted, Status
<1>5. ASSUME NEW m \in Machines, GoesOffline(m) PROVE ListInv'
  <2>1. fetches' \in Seq(RequestType) /\ Len(fetches') <= MaxFetches
    BY <1>5, MoreRequests DEF GoesOffline, Announced
  <2>. QED
    BY <1>1, <1>2, <1>3, <1>5, <2>1 DEF GoesOffline, Announced, Status
<1>6. ASSUME NEW m \in Machines, UpdateServerMetrics(m) PROVE ListInv'
  BY <1>1, <1>3, <1>6, Reselected DEF UpdateServerMetrics, Status
<1>7. ASSUME NEW id \in Machines \cup {"ALL"}, SelectServer(id) PROVE ListInv'
  BY <1>1, <1>2, <1>3, <1>7, Reselected DEF SelectServer
<1>8. ASSUME NEW i \in DOMAIN fetches, ServeServers(i) PROVE ListInv'
  <2>1. PICK r \in RequestType : fetches' = [fetches EXCEPT ![i] = r]
    <3>1. CASE fetches' = [fetches EXCEPT ![i] = [step |-> "answered", list |-> machine]]
      <4>1. [step |-> "answered", list |-> machine] \in RequestType
        BY <1>1 DEF RequestType
      <4>. QED
        BY <3>1, <4>1
    <3>2. CASE fetches' = [fetches EXCEPT ![i].step = "failed"]
      <4>1. [fetches[i] EXCEPT !.step = "failed"] \in RequestType
        BY <1>1, <1>8 DEF RequestType
      <4>2. fetches' = [fetches EXCEPT ![i] = [fetches[i] EXCEPT !.step = "failed"]]
        BY <3>2
      <4>. QED
        BY <4>1, <4>2
    <3>. QED
      BY <1>8, <3>1, <3>2 DEF ServeServers
  <2>2. fetches' \in Seq(RequestType) /\ Len(fetches') <= MaxFetches
    BY <1>1, <2>1, ExceptSeq
  <2>. QED
    BY <1>1, <1>2, <1>3, <1>8, <2>2 DEF ServeServers
<1>9. ASSUME NEW i \in DOMAIN fetches, TakeServers(i) PROVE ListInv'
  <2>1. fetches' \in Seq(RequestType) /\ Len(fetches') <= MaxFetches
    <3>1. /\ RemoveAt(fetches, i) \in Seq(RequestType)
          /\ Len(RemoveAt(fetches, i)) <= Len(fetches)
      BY <1>1, <1>9, RemovedRequest
    <3>2. Len(RemoveAt(fetches, i)) \in Nat
      BY <3>1, LenProperties
    <3>. QED
      BY <1>1, <1>9, <3>1, <3>2, ServerListAssumption DEF TakeServers
  <2>2. servers' \in [Machines -> Status]
    BY <1>1, <1>9 DEF TakeServers, RequestType
  <2>. QED
    BY <1>1, <1>3, <1>9, <2>1, <2>2, Reselected DEF TakeServers
<1>10. CASE FetchServers
  BY <1>1, <1>3, <1>10, MoreRequests DEF FetchServers
<1>11. CASE PurgeOffline
  BY <1>1, <1>2, <1>3, <1>11 DEF PurgeOffline
<1>12. CASE ServePurge
  BY <1>1, <1>2, <1>3, <1>12 DEF ServePurge, Status
<1>13. CASE EndPurge
  <2>1. fetches' \in Seq(RequestType) /\ Len(fetches') <= MaxFetches
    BY <1>13, MoreRequests DEF EndPurge
  <2>. QED
    BY <1>1, <1>3, <1>13, <2>1 DEF EndPurge
<1>14. CASE UNCHANGED listVars
  BY <1>1, <1>3, <1>14 DEF listVars
<1>. QED
  BY <1>4, <1>5, <1>6, <1>7, <1>8, <1>9, <1>10, <1>11, <1>12, <1>13, <1>14 DEF ListStep

(* The list of machines and its requests stay within their types. *)
THEOREM ListTypeCorrect == ListSpec => []ListTypeOK
<1>1. ListInv => ListTypeOK
  BY DEF ListInv
<1>. QED
  BY <1>1, ListInvInit, ListInvStep, PTL DEF ListSpec

-----------------------------------------------------------------------------
(* Every view behaves as it does alone, whatever is on the scene: what is  *)
(* proved of one of them holds of the application.                         *)
THEOREM ViewsAlone == Spec => PanelSpec /\ ListSpec /\ LogSpec /\ RowSpec
<1>1. Init => PanelInit /\ ListInit /\ LogInit /\ RowInit
  BY DEF Init
<1>2. [Next]_vars => /\ [PanelStep]_panelVars /\ [ListStep]_listVars
                     /\ [LogStep]_logVars /\ [RowStep]_rowVars
  <2> SUFFICES ASSUME [Next]_vars
               PROVE  /\ [PanelStep]_panelVars /\ [ListStep]_listVars
                      /\ [LogStep]_logVars /\ [RowStep]_rowVars
    OBVIOUS
  <2>1. CASE Next
    BY <2>1, Zenon DEF Next
  <2>2. CASE UNCHANGED vars
    BY <2>2 DEF vars
  <2>. QED
    BY <2>1, <2>2
<1>. QED
  BY <1>1, <1>2, PTL DEF Spec, PanelSpec, ListSpec, LogSpec, RowSpec

(* The state of every view stays within its type. *)
THEOREM FrontendTypeCorrect == Spec => []TypeOK
<1>1. Init => scene \in Scenes
  BY DEF Init
<1>2. scene \in Scenes /\ [Next]_vars => (scene \in Scenes)'
  BY DEF Next, vars
<1>3. PanelTypeOK /\ ListTypeOK /\ LogTypeOK /\ RowTypeOK /\ scene \in Scenes => TypeOK
  BY DEF TypeOK
<1>. QED
  BY <1>1, <1>2, <1>3, ViewsAlone, PanelTypeCorrect, ListTypeCorrect, LogTypeCorrect,
     RowTypeCorrect, PTL DEF Spec

(* What a page shows is of the thing selected and not older than what it   *)
(* was told of, by any number of handlers at a time, but while it loads,   *)
(* after a failure, an overtaken answer or crossed patches, or a search of *)
(* the log tab; the log view opens no gap in the history and the lines     *)
(* after it and changes no order; its buckets count what a click on them   *)
(* displays, and a sum's (none) the lines with a 0 too; a machine is as    *)
(* the operator asked for last.                                            *)
THEOREM FrontendSafe ==
  Spec => [](OwnDataOnly /\ SeesWrites /\ StreamKept /\ DrillDown /\ OperatorHolds)
  BY ViewsAlone, PanelsShowTheirOwn, PanelsSeeWrites, StreamIsKept, FiguresDrillDown,
     WishesHold, PTL

=============================================================================
