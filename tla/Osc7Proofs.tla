------------------------------ MODULE Osc7Proofs ------------------------------
(***************************************************************************)
(* The scanner, for every limit and every output: what it keeps is bounded *)
(* (TypeOK), its place says what stands at the end of the scanned bytes    *)
(* (Sound), it is in the place every clean beginning calls for (Alert),    *)
(* and so the directory is the one that was reported (CwdTrue).  What is   *)
(* made of a url, for every url: percent_decode undoes every encoding of a *)
(* path (DecodesEncoded), and so the directory is the one that was meant   *)
(* (UrlRead, PathTrue).  The two calls of a read (ReadsWhole).             *)
(***************************************************************************)
EXTENDS Osc7, SequenceTheorems, WellFoundedInduction, TLAPS

-----------------------------------------------------------------------------
(* What the place of the scanner says: the last bytes are the first st of  *)
(* the introducer and after them the url so far.                           *)
Sound ==
  LET n == Len(seen) - Len(buf)
  IN  /\ st <= n
      /\ \A k \in 1..st : seen[n - st + k] = Intro[k]
      /\ \A k \in 1..Len(buf) : seen[n + k] = buf[k]

Begins(i, k) == \A m \in 1..k : seen[i + m - 1] = Intro[m]

(* A clean beginning at i is followed: while the introducer stands at the  *)
(* end of what is scanned, and while its url goes on.                      *)
Follows(i) ==
  /\ \A k \in 1..3 : i + k - 1 = Len(seen) /\ Begins(i, k) => st = k
  /\ /\ i + 3 <= Len(seen) /\ Len(seen) - i - 3 <= Cap /\ Begins(i, 4)
     /\ \A m \in i+4 .. Len(seen) : seen[m] \notin Ends
     => st = 4 /\ Len(buf) = Len(seen) - i - 3

Alert == \A i \in 1..Len(seen) : Clean(i) => Follows(i)

-----------------------------------------------------------------------------
(* The introducer, byte by byte.                                           *)
LEMMA IntroBytes ==
  /\ Intro[1] = 27 /\ Intro[2] = 93 /\ Intro[3] = 55 /\ Intro[4] = 59
  /\ Len(Intro) = 4
BY DEF Intro, ESC

(* One byte is scanned, and is the first of the input.                     *)
LEMMA ScanTakes ==
  ASSUME TypeOK, Scan
  PROVE  /\ Head(input) \in Byte /\ Tail(input) \in Seq(Byte)
         /\ seen' = Append(seen, Head(input)) /\ seen' \in Seq(Byte)
         /\ Len(seen') = Len(seen) + 1
         /\ \A i \in 1..Len(seen) : seen'[i] = seen[i]
         /\ seen'[Len(seen) + 1] = Head(input)
<1>1. input \in Seq(Byte) /\ input # <<>> /\ seen \in Seq(Byte)
      /\ seen' = Append(seen, Head(input))
  BY DEF TypeOK, Scan
<1>2. Head(input) \in Byte /\ Tail(input) \in Seq(Byte)
  BY <1>1, HeadTailProperties
<1>. QED
  BY <1>1, <1>2, AppendProperties

(* What a byte of a url does to the kept part of it.                       *)
LEMMA BufGrows ==
  ASSUME TypeOK, NEW b \in Byte, b \notin Ends
  PROVE  /\ Append(buf, b) \in Seq(Byte \ Ends)
         /\ Len(Append(buf, b)) = Len(buf) + 1
         /\ Append(buf, b)[Len(buf) + 1] = b
         /\ \A i \in 1..Len(buf) : Append(buf, b)[i] = buf[i]
BY AppendProperties DEF TypeOK

(* The types are kept: no byte over the limit is stored (term.rs 157-160). *)
THEOREM Typed == Spec => []TypeOK
<1>1. Init => TypeOK
  BY Osc7Assumption DEF Init, TypeOK
<1>2. TypeOK /\ [Next]_vars => TypeOK'
  <2>. SUFFICES ASSUME TypeOK, [Next]_vars PROVE TypeOK'
    OBVIOUS
  <2>1. ASSUME NEW p \in Pieces, Write(p) PROVE TypeOK'
    <3>1. p.bytes \in Seq(Byte)
      BY Osc7Assumption
    <3>. QED
      BY <2>1, <3>1, Osc7Assumption DEF TypeOK, Write, readVars
  <2>2. CASE Scan
    <3>1. Head(input) \in Byte /\ Tail(input) \in Seq(Byte) /\ seen' \in Seq(Byte)
      BY <2>2, ScanTakes
    <3>2. CASE ScanIntro(Head(input))
      BY <2>2, <3>1, <3>2 DEF TypeOK, Scan, ScanIntro, StateAfter
    <3>3. CASE ScanUrl(Head(input))
      <4>1. Append(buf, Head(input)) \in Seq(Byte \ Ends)
            /\ Len(Append(buf, Head(input))) = Len(buf) + 1
        BY <3>1, <3>3, BufGrows DEF ScanUrl
      <4>2. CASE TooLong(Len(buf) + 1)
        <5>1. st' = 0 /\ buf' = <<>> /\ quiet' = quiet
          BY <3>3, <4>2 DEF ScanUrl
        <5>. QED
          BY <2>2, <3>1, <5>1, Osc7Assumption, EmptySeq DEF TypeOK, Scan
      <4>3. CASE ~TooLong(Len(buf) + 1)
        <5>1. Len(buf) + 1 <= Cap
          BY <4>3, Osc7Assumption, LenProperties DEF TypeOK, TooLong
        <5>2. st' = 4 /\ buf' = Append(buf, Head(input)) /\ quiet' = quiet
          BY <3>3, <4>3 DEF ScanUrl
        <5>. QED
          BY <2>2, <3>1, <4>1, <5>1, <5>2 DEF TypeOK, Scan
      <4>. QED
        BY <4>2, <4>3
    <3>4. CASE Report(Head(input))
      <4>1. st' \in {0, 1} /\ buf' = <<>>
        BY <3>4 DEF Report, StateAtEnd
      <4>2. quiet' \in BOOLEAN
        BY <3>4 DEF Report
      <4>. QED
        BY <2>2, <3>1, <4>1, <4>2, Osc7Assumption, EmptySeq DEF TypeOK, Scan
    <3>. QED
      BY <2>2, <3>2, <3>3, <3>4 DEF Scan
  <2>3. CASE AskLength
    BY <2>3 DEF TypeOK, AskLength, scanVars
  <2>4. CASE Copy
    BY <2>4 DEF TypeOK, Copy, scanVars
  <2>5. CASE UNCHANGED vars
    BY <2>5 DEF TypeOK, vars
  <2>. QED
    BY <2>1, <2>2, <2>3, <2>4, <2>5 DEF Next
<1>. QED
  BY <1>1, <1>2, PTL DEF Spec

-----------------------------------------------------------------------------
(* Sound: the place tells the last bytes.                                  *)

(* The three ways a byte is taken, as far as place and url are concerned.  *)
LEMMA Places ==
  ASSUME TypeOK, Scan
  PROVE  LET b == Head(input)
         IN  \/ st < 4 /\ st' = StateAfter(b) /\ buf = <<>> /\ buf' = <<>>
                /\ cwd' = cwd
             \/ st = 4 /\ b \notin Ends /\ Len(buf) + 1 > Cap
                /\ st' = 0 /\ buf' = <<>> /\ cwd' = cwd
             \/ st = 4 /\ b \notin Ends /\ Len(buf) + 1 <= Cap
                /\ st' = 4 /\ buf' = Append(buf, b) /\ cwd' = cwd
             \/ st = 4 /\ b \in Ends /\ st' = StateAtEnd(b) /\ buf' = <<>>
                /\ cwd' = PathOf(buf)
<1>1. CASE ScanIntro(Head(input))
  BY <1>1 DEF TypeOK, ScanIntro
<1>2. CASE ScanUrl(Head(input))
  <2>1. Len(buf) + 1 > Cap \/ Len(buf) + 1 <= Cap
    BY Osc7Assumption, LenProperties DEF TypeOK
  <2>2. TooLong(Len(buf) + 1) <=> Len(buf) + 1 > Cap
    BY DEF TooLong
  <2>3. Len(buf) + 1 <= Cap => ~ (Len(buf) + 1 > Cap)
    BY Osc7Assumption, LenProperties DEF TypeOK
  <2>. QED
    BY <1>2, <2>1, <2>2, <2>3 DEF ScanUrl
<1>3. CASE Report(Head(input))
  BY <1>3 DEF Report
<1>. QED
  BY <1>1, <1>2, <1>3 DEF Scan

(* Every byte the scanner takes keeps Sound.                               *)
LEMMA SoundStep ==
  ASSUME TypeOK, Sound, Scan
  PROVE  Sound'
<1>. DEFINE b == Head(input)
            N == Len(seen)
<1>1. /\ N \in Nat /\ Len(seen') = N + 1 /\ seen'[N + 1] = b
      /\ \A i \in 1..N : seen'[i] = seen[i]
  BY ScanTakes, LenProperties DEF TypeOK
<1>2. st \in 0..4 /\ Len(buf) \in Nat /\ Len(<<>>) = 0
  BY LenProperties DEF TypeOK
<1>3. CASE st < 4 /\ st' = StateAfter(b) /\ buf = <<>> /\ buf' = <<>>
  <2>1. st <= N /\ \A k \in 1..st : seen[N - st + k] = Intro[k]
    BY <1>1, <1>2, <1>3 DEF Sound
  <2>2. CASE st' = 0
    BY <1>1, <1>2, <1>3, <2>2 DEF Sound
  <2>3. CASE st' = st + 1 /\ b = Intro[st + 1]
    <3>1. \A k \in 1..st+1 : seen'[N + 1 - (st + 1) + k] = Intro[k]
      <4>. TAKE k \in 1..st+1
      <4>1. CASE k = st + 1
        BY <1>1, <1>2, <2>1, <2>3, <4>1
      <4>2. CASE k \in 1..st
        <5>1. N + 1 - (st + 1) + k = N - st + k /\ N - st + k \in 1..N
          BY <1>1, <1>2, <2>1, <4>2
        <5>. QED
          BY <1>1, <2>1, <4>2, <5>1
      <4>. QED
        BY <1>2, <4>1, <4>2
    <3>. QED
      BY <1>1, <1>2, <1>3, <2>1, <2>3, <3>1 DEF Sound
  <2>4. CASE st' = 1 /\ b = ESC
    BY <1>1, <1>2, <1>3, <2>4, IntroBytes DEF Sound, ESC
  <2>. QED
    BY <1>3, <2>2, <2>3, <2>4 DEF StateAfter
<1>4. CASE st' = 0 /\ buf' = <<>>
  BY <1>1, <1>2, <1>4 DEF Sound
<1>5. CASE st = 4 /\ b \notin Ends /\ st' = 4 /\ buf' = Append(buf, b)
  <2>1. /\ Len(buf') = Len(buf) + 1 /\ buf'[Len(buf) + 1] = b
        /\ \A i \in 1..Len(buf) : buf'[i] = buf[i]
    BY <1>5, ScanTakes, BufGrows
  <2>2. /\ 4 <= N - Len(buf)
        /\ \A k \in 1..4 : seen[N - Len(buf) - 4 + k] = Intro[k]
        /\ \A k \in 1..Len(buf) : seen[N - Len(buf) + k] = buf[k]
    BY <1>5 DEF Sound
  <2>3. \A k \in 1..4 : seen'[N - Len(buf) - 4 + k] = Intro[k]
    <3>1. \A k \in 1..4 : N - Len(buf) - 4 + k \in 1..N
      BY <1>1, <1>2, <2>2
    <3>. QED
      BY <1>1, <2>2, <3>1
  <2>4. \A k \in 1..Len(buf)+1 : seen'[N - Len(buf) + k] = buf'[k]
    <3>. TAKE k \in 1..Len(buf)+1
    <3>1. CASE k = Len(buf) + 1
      BY <1>1, <1>2, <2>1, <3>1
    <3>2. CASE k \in 1..Len(buf)
      <4>1. N - Len(buf) + k \in 1..N
        BY <1>1, <1>2, <2>2, <3>2
      <4>. QED
        BY <1>1, <2>1, <2>2, <3>2, <4>1
    <3>. QED
      BY <1>2, <3>1, <3>2
  <2>5. Len(seen') - Len(buf') = N - Len(buf)
    BY <1>1, <1>2, <2>1
  <2>. QED
    BY <1>5, <2>1, <2>2, <2>3, <2>4, <2>5 DEF Sound
<1>6. CASE st = 4 /\ b \in Ends /\ st' = StateAtEnd(b) /\ buf' = <<>>
  <2>1. CASE b = ESC
    BY <1>1, <1>2, <1>6, <2>1, IntroBytes, SMTT(30) DEF Sound, ESC, StateAtEnd
  <2>2. CASE b # ESC
    BY <1>1, <1>2, <1>6, <2>2 DEF Sound, StateAtEnd
  <2>. QED
    BY <2>1, <2>2
<1>. QED
  BY <1>3, <1>4, <1>5, <1>6, Places

-----------------------------------------------------------------------------
(* Alert: no clean beginning is passed over.                               *)

(* A place that is clean stays so, and what stands at it stays.            *)
LEMMA CleanStays ==
  ASSUME TypeOK, Scan, NEW i \in 1..Len(seen)+1, Clean(i)'
  PROVE  /\ Clean(i)
         /\ \A k \in 1..4 : Begins(i, k)' /\ i + k - 2 <= Len(seen)
                              => k = 1 \/ Begins(i, k - 1)
<1>1. /\ Len(seen) \in Nat
      /\ \A m \in 1..Len(seen) : seen'[m] = seen[m]
  BY ScanTakes, LenProperties DEF TypeOK
<1>2. Clean(i)
  BY <1>1 DEF Clean
<1>3. ASSUME NEW k \in 1..4, Begins(i, k)', i + k - 2 <= Len(seen), k # 1
      PROVE  Begins(i, k - 1)
  <2>. SUFFICES ASSUME NEW m \in 1..k-1 PROVE seen[i + m - 1] = Intro[m]
    BY DEF Begins
  <2>1. m \in 1..k /\ i + m - 1 \in 1..Len(seen)
    BY <1>1, <1>3
  <2>. QED
    BY <1>1, <1>3, <2>1 DEF Begins
<1>. QED
  BY <1>2, <1>3

(* Every byte the scanner takes keeps Alert.                               *)
LEMMA AlertStep ==
  ASSUME TypeOK, Sound, Alert, Scan
  PROVE  Alert'
<1>. DEFINE b == Head(input)
            N == Len(seen)
<1>1. /\ N \in Nat /\ Len(seen') = N + 1 /\ seen'[N + 1] = b
      /\ \A i \in 1..N : seen'[i] = seen[i]
  BY ScanTakes, LenProperties DEF TypeOK
<1>2. st \in 0..4 /\ Len(buf) \in Nat /\ Len(<<>>) = 0 /\ Cap \in Nat
      /\ (st # 4 => buf = <<>>)
  BY LenProperties, Osc7Assumption DEF TypeOK
<1>. SUFFICES ASSUME NEW i \in 1..N+1, Clean(i)' PROVE Follows(i)'
  BY <1>1 DEF Alert
<1>3. Clean(i) /\ (i <= N => Follows(i))
  BY <1>1, CleanStays DEF Alert
<1>4. ASSUME i = N + 1, b = Intro[1] PROVE st' = 1
  <2>1. st # 2
    <3>1. st = 2 => N >= 2 /\ seen[N - 1] = Intro[1] /\ seen[N] = Intro[2]
      BY <1>1, <1>2 DEF Sound
    <3>. QED
      BY <1>1, <1>3, <1>4, <3>1 DEF Clean
  <2>2. st # 3
    <3>1. st = 3 => N >= 3 /\ seen[N - 2] = Intro[1] /\ seen[N - 1] = Intro[2]
                           /\ seen[N] = Intro[3]
      BY <1>1, <1>2 DEF Sound
    <3>. QED
      BY <1>1, <1>3, <1>4, <3>1 DEF Clean
  <2>3. b = ESC /\ b \in Ends
    BY <1>4, IntroBytes DEF ESC, Ends
  <2>4. CASE st = 4
    BY <2>3, <2>4, Places DEF StateAtEnd
  <2>5. CASE st \in {0, 1}
    <3>1. st' = StateAfter(b)
      BY <2>5, Places
    <3>. QED
      BY <1>4, <2>3, <2>5, <3>1, IntroBytes DEF StateAfter, ESC
  <2>. QED
    BY <1>2, <2>1, <2>2, <2>4, <2>5
<1>5. ASSUME NEW k \in 2..4, i + k - 1 = N + 1, Begins(i, k)'
      PROVE  st' = k /\ buf' = <<>>
  <2>1. Begins(i, k - 1) /\ i <= N
    BY <1>1, <1>5, CleanStays
  <2>2. st = k - 1
    BY <1>1, <1>3, <1>5, <2>1 DEF Follows
  <2>3. b = Intro[k]
    BY <1>1, <1>5, SMTT(30) DEF Begins
  <2>4. st' = StateAfter(b) /\ buf' = <<>>
    BY <1>5, <2>2, Places
  <2>. QED
    BY <1>5, <2>2, <2>3, <2>4 DEF StateAfter
<1>6. ASSUME i + 3 <= N + 1, N + 1 - i - 3 <= Cap, Begins(i, 4)',
             \A m \in i+4 .. N+1 : seen'[m] \notin Ends
      PROVE  st' = 4 /\ Len(buf') = N + 1 - i - 3
  <2>1. CASE i + 3 = N + 1
    BY <1>1, <1>2, <1>5, <1>6, <2>1
  <2>2. CASE i + 3 <= N
    <3>1. Begins(i, 4) /\ (\A m \in i+4 .. N : seen[m] \notin Ends)
          /\ b \notin Ends
      BY <1>1, <1>6, <2>2, SMTT(30) DEF Begins
    <3>2. st = 4 /\ Len(buf) = N - i - 3
      BY <1>1, <1>2, <1>3, <1>6, <2>2, <3>1 DEF Follows
    <3>3. ~ (Len(buf) + 1 > Cap)
      BY <1>1, <1>2, <1>6, <3>2
    <3>4. st' = 4 /\ buf' = Append(buf, b)
      BY <3>1, <3>2, <3>3, Places
    <3>5. Len(buf') = Len(buf) + 1
      BY <3>1, <3>4, ScanTakes, BufGrows
    <3>. QED
      BY <1>1, <3>2, <3>4, <3>5
  <2>. QED
    BY <1>1, <1>6, <2>1, <2>2
<1>7. ASSUME NEW k \in 1..3, i + k - 1 = N + 1, Begins(i, k)'
      PROVE  st' = k
  <2>1. CASE k = 1
    <3>1. i = N + 1 /\ seen'[i] = Intro[1]
      BY <1>1, <1>7, <2>1 DEF Begins
    <3>. QED
      BY <1>1, <1>4, <2>1, <3>1
  <2>2. CASE k \in 2..4
    BY <1>5, <1>7, <2>2
  <2>. QED
    BY <1>7, <2>1, <2>2
<1>8. \A k \in 1..3 : i + k - 1 = Len(seen') /\ Begins(i, k)' => st' = k
  BY <1>1, <1>7
<1>9. /\ i + 3 <= Len(seen') /\ Len(seen') - i - 3 <= Cap /\ Begins(i, 4)'
      /\ \A m \in i+4 .. Len(seen') : seen'[m] \notin Ends
      => st' = 4 /\ Len(buf') = Len(seen') - i - 3
  BY <1>1, <1>6
<1>. QED
  BY <1>8, <1>9 DEF Follows

-----------------------------------------------------------------------------
(* CwdTrue.                                                                *)

(* What a complete sequence in the scanned bytes says does not change.     *)
LEMMA ReportStays ==
  ASSUME TypeOK, Scan, NEW i \in 1..Len(seen), NEW j \in 1..Len(seen)
  PROVE  /\ Complete(i, j)' <=> Complete(i, j)
         /\ Complete(i, j) => Reported(i, j)' = Reported(i, j)
<1>1. /\ Len(seen) \in Nat /\ Len(seen') = Len(seen) + 1
      /\ seen \in Seq(Byte) /\ seen' \in Seq(Byte)
      /\ \A m \in 1..Len(seen) : seen'[m] = seen[m]
  BY ScanTakes, LenProperties DEF TypeOK
<1>2. i + 4 <= j => \A k \in 1..4 : i + k - 1 \in 1..Len(seen)
  BY <1>1
<1>3. i + 4 <= j => /\ \A k \in 1..4 : seen'[i + k - 1] = seen[i + k - 1]
                    /\ \A k \in i+4 .. j-1 : seen'[k] = seen[k]
                    /\ seen'[j] = seen[j]
  BY <1>1, <1>2, SMTT(30)
<1>4. Complete(i, j)' <=> Complete(i, j)
  <2>1. i + 4 <= j =>
          /\ (\A k \in 1..4 : seen'[i + k - 1] = Intro[k])
               <=> (\A k \in 1..4 : seen[i + k - 1] = Intro[k])
          /\ (\A k \in i+4 .. j-1 : seen'[k] \notin Ends)
               <=> (\A k \in i+4 .. j-1 : seen[k] \notin Ends)
    BY <1>3
  <2>2. i \in 1..Len(seen') /\ j \in 1..Len(seen')
    BY <1>1
  <2>. QED
    BY <1>3, <2>1, <2>2 DEF Complete
<1>5. ASSUME Complete(i, j) PROVE SubSeq(seen', i + 4, j - 1) = SubSeq(seen, i + 4, j - 1)
  <2>1. \A k \in i+4 .. j-1 : seen[k] \in Byte /\ seen'[k] = seen[k]
    BY <1>1, LenProperties
  <2>2. /\ SubSeq(seen, i + 4, j - 1) \in Seq(Byte)
        /\ Len(SubSeq(seen, i + 4, j - 1))
             = IF i + 4 <= j - 1 THEN j - 1 - (i + 4) + 1 ELSE 0
        /\ \A k \in 1 .. j - 1 - (i + 4) + 1 :
             SubSeq(seen, i + 4, j - 1)[k] = seen[i + 4 + k - 1]
    BY <2>1, SubSeqProperties
  <2>3. /\ SubSeq(seen', i + 4, j - 1) \in Seq(Byte)
        /\ Len(SubSeq(seen', i + 4, j - 1))
             = IF i + 4 <= j - 1 THEN j - 1 - (i + 4) + 1 ELSE 0
        /\ \A k \in 1 .. j - 1 - (i + 4) + 1 :
             SubSeq(seen', i + 4, j - 1)[k] = seen'[i + 4 + k - 1]
    BY <2>1, SubSeqProperties
  <2>4. \A k \in 1 .. Len(SubSeq(seen, i + 4, j - 1)) :
          /\ k \in 1 .. j - 1 - (i + 4) + 1
          /\ seen'[i + 4 + k - 1] = seen[i + 4 + k - 1]
    BY <1>1, <2>2
  <2>. QED
    BY <2>2, <2>3, <2>4, SeqEqual
<1>. QED
  BY <1>4, <1>5 DEF Reported

(* At its end a url is reported from the place where its sequence begins.  *)
LEMMA ReportTrue ==
  ASSUME TypeOK, Sound, Scan, st = 4, Head(input) \in Ends
  PROVE  \E i, j \in 1..Len(seen)+1 :
           /\ j = Len(seen) + 1
           /\ Complete(i, j)' /\ Reported(i, j)' = PathOf(buf)
<1>. DEFINE N == Len(seen)
<1>1. /\ N \in Nat /\ Len(seen') = N + 1 /\ seen'[N + 1] = Head(input)
      /\ seen' \in Seq(Byte) /\ \A m \in 1..N : seen'[m] = seen[m]
  BY ScanTakes, LenProperties DEF TypeOK
<1>2. /\ Len(buf) \in Nat /\ Len(buf) <= Cap /\ Cap \in Nat
      /\ \A m \in 1..Len(buf) : buf[m] \in Byte \ Ends
      /\ buf \in Seq(Byte)
  BY LenProperties, ElementOfSeq, SeqMonotonic, Osc7Assumption DEF TypeOK
<1>3. /\ 4 <= N - Len(buf)
      /\ \A k \in 1..4 : seen[N - Len(buf) - 4 + k] = Intro[k]
      /\ \A k \in 1..Len(buf) : seen[N - Len(buf) + k] = buf[k]
  BY DEF Sound
<1>0. N \in Nat /\ Len(buf) \in Nat /\ 4 <= N - Len(buf)
  BY <1>1, <1>2, <1>3
<1>4. PICK i \in 1..N+1, j \in 1..N+1 : i = N - Len(buf) - 3 /\ j = N + 1
  BY <1>1, <1>2, <1>3
<1>5. i + 4 <= j /\ j - i - 4 = Len(buf)
  BY <1>0, <1>4
<1>6. ASSUME NEW k \in 1..4 PROVE seen'[i + k - 1] = Intro[k]
  <2>1. i + k - 1 = N - Len(buf) - 4 + k /\ i + k - 1 \in 1..N
    BY <1>0, <1>4
  <2>. QED
    BY <1>1, <1>3, <2>1
<1>7. ASSUME NEW k \in 1..Len(buf) PROVE seen'[i + 4 + k - 1] = buf[k]
  <2>1. i + 4 + k - 1 = N - Len(buf) + k /\ i + 4 + k - 1 \in 1..N
    BY <1>0, <1>4
  <2>. QED
    BY <1>1, <1>3, <2>1
<1>8. ASSUME NEW k \in i+4 .. j-1 PROVE seen'[k] \notin Ends
  <2>1. k - i - 3 \in 1..Len(buf) /\ i + 4 + (k - i - 3) - 1 = k
    BY <1>0, <1>4
  <2>. QED
    BY <1>2, <1>7, <2>1
<1>9. Complete(i, j)'
  BY <1>1, <1>2, <1>4, <1>6, <1>8, <1>5 DEF Complete
<1>10. SubSeq(seen', i + 4, j - 1) = buf
  <2>1. \A k \in i+4 .. j-1 : seen'[k] \in Byte
    BY <1>1, <1>4, LenProperties
  <2>2. /\ SubSeq(seen', i + 4, j - 1) \in Seq(Byte)
        /\ Len(SubSeq(seen', i + 4, j - 1))
             = IF i + 4 <= j - 1 THEN j - 1 - (i + 4) + 1 ELSE 0
        /\ \A k \in 1 .. j - 1 - (i + 4) + 1 :
             SubSeq(seen', i + 4, j - 1)[k] = seen'[i + 4 + k - 1]
    BY <1>1, <1>2, <1>4, <2>1, SubSeqProperties
  <2>3. Len(SubSeq(seen', i + 4, j - 1)) = Len(buf)
        /\ j - 1 - (i + 4) + 1 = Len(buf)
    BY <1>1, <1>2, <1>4, <2>2
  <2>. QED
    BY <1>2, <1>7, <2>2, <2>3, SeqEqual
<1>. QED
  BY <1>4, <1>9, <1>10 DEF Reported

(* Every byte the scanner takes keeps CwdTrue.                             *)
LEMMA CwdStep ==
  ASSUME TypeOK, Sound, Alert, CwdTrue, Scan
  PROVE  CwdTrue'
<1>. DEFINE N == Len(seen)
<1>1. /\ N \in Nat /\ Len(seen') = N + 1 /\ seen'[N + 1] = Head(input)
      /\ DOMAIN seen = 1..N /\ DOMAIN seen' = 1..N+1
      /\ \A m \in 1..N : seen'[m] = seen[m]
  BY ScanTakes, LenProperties DEF TypeOK
<1>2. CASE st = 4 /\ Head(input) \in Ends
  <2>1. PICK i, j \in 1..N+1 : /\ j = N + 1 /\ Complete(i, j)'
                               /\ Reported(i, j)' = PathOf(buf)
    BY <1>2, ReportTrue
  <2>2. cwd' = PathOf(buf)
    BY <1>2, Places
  <2>. QED
    BY <1>1, <2>1, <2>2 DEF CwdTrue
<1>3. CASE ~ (st = 4 /\ Head(input) \in Ends)
  <2>1. cwd' = cwd
    BY <1>3, Places
  <2>2. ASSUME NEW i \in 1..N+1, NEW j \in 1..N+1, Complete(i, j)', Clean(i)'
        PROVE  i <= N /\ j <= N
    <3>1. i + 4 <= j /\ j - i - 4 <= Cap /\ seen'[j] \in Ends
          /\ (\A k \in 1..4 : seen'[i + k - 1] = Intro[k])
          /\ (\A k \in i+4 .. j-1 : seen'[k] \notin Ends)
      BY <2>2 DEF Complete
    <3>2. i <= N /\ Clean(i)
      BY <1>1, <2>2, <3>1, CleanStays
    <3>3. ASSUME j = N + 1 PROVE FALSE
      <4>1. \A k \in 1..4 : i + k - 1 \in 1..N
        BY <1>1, <3>1, <3>3, SMTT(30)
      <4>2. Begins(i, 4)
        BY <1>1, <3>1, <4>1 DEF Begins
      <4>3. \A k \in i+4 .. N : seen[k] \notin Ends
        BY <1>1, <3>1, <3>3
      <4>4. Follows(i)
        BY <3>2 DEF Alert
      <4>5. st = 4
        BY <1>1, <3>1, <3>3, <4>2, <4>3, <4>4, Osc7Assumption DEF Follows
      <4>. QED
        BY <1>1, <1>3, <3>1, <3>3, <4>5
    <3>. QED
      BY <1>1, <3>2, <3>3
  <2>3. cwd' = <<>> \/ \E i, j \in DOMAIN seen' :
                          Complete(i, j)' /\ cwd' = Reported(i, j)'
    <3>1. CASE cwd = <<>>
      BY <2>1, <3>1
    <3>2. CASE cwd # <<>>
      <4>1. PICK i, j \in 1..N : Complete(i, j) /\ cwd = Reported(i, j)
        BY <1>1, <3>2 DEF CwdTrue
      <4>. QED
        BY <1>1, <2>1, <4>1, ReportStays
    <3>. QED
      BY <3>1, <3>2
  <2>4. ASSUME NEW i \in DOMAIN seen', NEW j \in DOMAIN seen',
               Complete(i, j)', Clean(i)'
        PROVE  \E i2, j2 \in DOMAIN seen' :
                 Complete(i2, j2)' /\ j <= j2 /\ cwd' = Reported(i2, j2)'
    <3>1. i \in 1..N /\ j \in 1..N /\ Clean(i)
      BY <1>1, <2>2, <2>4, CleanStays
    <3>2. Complete(i, j)
      BY <2>4, <3>1, ReportStays
    <3>3. PICK i2, j2 \in 1..N :
            Complete(i2, j2) /\ j <= j2 /\ cwd = Reported(i2, j2)
      BY <1>1, <3>1, <3>2 DEF CwdTrue
    <3>. QED
      BY <1>1, <2>1, <3>3, ReportStays
  <2>. QED
    BY <2>3, <2>4 DEF CwdTrue
<1>. QED
  BY <1>2, <1>3

-----------------------------------------------------------------------------
(* The steps that scan nothing leave all of it alone.                      *)
LEMMA OthersKeep ==
  ASSUME TypeOK, Next, ~Scan
  PROVE  UNCHANGED <<seen, st, buf, cwd>>
BY DEF Next, Write, AskLength, Copy, scanVars

(* The directory is one that a whole sequence reported, and no clean       *)
(* sequence is missed: CwdTrue of Osc7, for every limit and every output.  *)
THEOREM Correct == Spec => []CwdTrue
<1>1. Init => Sound /\ Alert /\ CwdTrue
  <2>. SUFFICES ASSUME Init PROVE Sound /\ Alert /\ CwdTrue
    OBVIOUS
  <2>1. seen = <<>> /\ buf = <<>> /\ st = 0 /\ cwd = <<>>
    BY DEF Init
  <2>2. Len(<<>>) = 0 /\ DOMAIN seen = {}
    BY <2>1
  <2>3. Sound
    BY <2>1, <2>2 DEF Sound
  <2>4. Alert
    BY <2>1, <2>2 DEF Alert
  <2>. QED
    BY <2>1, <2>2, <2>3, <2>4 DEF CwdTrue
<1>2. TypeOK /\ Sound /\ Alert /\ CwdTrue /\ [Next]_vars
        => (Sound /\ Alert /\ CwdTrue)'
  <2>. SUFFICES ASSUME TypeOK, Sound, Alert, CwdTrue, [Next]_vars
                PROVE  (Sound /\ Alert /\ CwdTrue)'
    OBVIOUS
  <2>1. CASE Scan
    BY <2>1, SoundStep, AlertStep, CwdStep
  <2>2. CASE UNCHANGED <<seen, st, buf, cwd>>
    <3>1. Sound'
      BY <2>2 DEF Sound
    <3>2. Alert'
      BY <2>2, ZenonT(60) DEF Alert, Clean, Follows, Begins
    <3>3. CwdTrue'
      BY <2>2 DEF CwdTrue, Complete, Clean, Reported
    <3>. QED
      BY <3>1, <3>2, <3>3
  <2>. QED
    BY <2>1, <2>2, OthersKeep DEF vars
<1>. QED
  BY <1>1, <1>2, Typed, PTL DEF Spec

-----------------------------------------------------------------------------
(* What becomes of a url, for every url.  The prover has no induction over  *)
(* recursive functions; the least place where a claim fails does its work. *)

(* A set of natural numbers has a least element.                           *)
LEMMA Least ==
  ASSUME NEW S \in SUBSET Nat, S # {}
  PROVE  \E m \in S : \A k \in S : m <= k
<1>1. PICK m \in S : \A k \in S : ~(k < m)
  <2>1. PICK m \in S : \A k \in S : <<k, m>> \notin OpToRel(<, Nat)
    BY NatLessThanWellFounded, WFMin, Zenon
  <2>2. \A k \in S : ~(k < m)
    BY <2>1, Zenon DEF OpToRel
  <2>. QED
    BY <2>2, Zenon
<1>. QED
  BY <1>1

(* What an escape can stand for.                                           *)
Octet == 0..255

(* What percent_decode makes of the bytes from the i-th on, f being that   *)
(* for the later places.                                                   *)
DecodeAt(s, f, i) ==
  IF i > Len(s) THEN <<>>
  ELSE IF IsEscape(s, i)
       THEN <<16 * HexDigit(s[i+1]) + HexDigit(s[i+2])>> \o f[i+3]
       ELSE <<s[i]>> \o f[i+1]

(* An escape stands for one octet, and ends within the url.                *)
LEMMA EscapeOctet ==
  ASSUME NEW s \in Seq(Byte), NEW i \in 1..Len(s)+1, ~(i > Len(s))
  PROVE  /\ s[i] \in Octet /\ i + 1 \in i+1 .. Len(s)+1
         /\ IsEscape(s, i) =>
              /\ 16 * HexDigit(s[i+1]) + HexDigit(s[i+2]) \in Octet
              /\ i + 3 \in i+1 .. Len(s)+1
<1>1. Len(s) \in Nat /\ \A k \in 1..Len(s) : s[k] \in Byte
  BY LenProperties, ElementOfSeq
<1>2. s[i] \in Octet /\ i + 1 \in i+1 .. Len(s)+1
  BY <1>1 DEF Byte, Octet
<1>3. ASSUME IsEscape(s, i)
      PROVE  /\ 16 * HexDigit(s[i+1]) + HexDigit(s[i+2]) \in Octet
             /\ i + 3 \in i+1 .. Len(s)+1
  <2>1. /\ i + 2 <= Len(s)
        /\ HexDigit(s[i+1]) >= 0 /\ HexDigit(s[i+2]) >= 0
    BY <1>3 DEF IsEscape
  <2>2. s[i+1] \in Byte /\ s[i+2] \in Byte
    BY <1>1, <2>1
  <2>3. \A b \in Byte : HexDigit(b) >= 0 => HexDigit(b) \in 0..15
    BY DEF HexDigit, Byte
  <2>4. HexDigit(s[i+1]) \in 0..15 /\ HexDigit(s[i+2]) \in 0..15
    BY <2>1, <2>2, <2>3, Zenon
  <2>5. \A x, y \in 0..15 : 16 * x + y \in 0..255
    OBVIOUS
  <2>6. i + 3 \in i+1 .. Len(s)+1
    BY <1>1, <2>1
  <2>. QED
    BY <2>4, <2>5, <2>6, Zenon DEF Octet
<1>. QED
  BY <1>2, <1>3

(* One place of the result, of the type of the later ones.                 *)
LEMMA DecodeAtType ==
  ASSUME NEW s \in Seq(Byte), NEW i \in 1..Len(s)+1, NEW f,
         \A j \in i+1 .. Len(s)+1 : f[j] \in Seq(Octet)
  PROVE  DecodeAt(s, f, i) \in Seq(Octet)
<1>1. CASE i > Len(s)
  BY <1>1, EmptySeq DEF DecodeAt
<1>2. CASE ~(i > Len(s)) /\ IsEscape(s, i)
  <2>. DEFINE o == 16 * HexDigit(s[i+1]) + HexDigit(s[i+2])
  <2>1. o \in Octet /\ f[i+3] \in Seq(Octet)
    BY <1>2, EscapeOctet
  <2>2. DecodeAt(s, f, i) = <<o>> \o f[i+3]
    BY <1>2, Zenon DEF DecodeAt
  <2>3. <<o>> \in Seq(Octet)
    BY <2>1
  <2>. QED
    BY <2>1, <2>2, <2>3, ConcatProperties, Zenon
<1>3. CASE ~(i > Len(s)) /\ ~IsEscape(s, i)
  <2>1. s[i] \in Octet /\ f[i+1] \in Seq(Octet)
    BY <1>3, EscapeOctet
  <2>2. DecodeAt(s, f, i) = <<s[i]>> \o f[i+1]
    BY <1>3, Zenon DEF DecodeAt
  <2>3. <<s[i]>> \in Seq(Octet)
    BY <2>1
  <2>. QED
    BY <2>1, <2>2, <2>3, ConcatProperties, Zenon
<1>. QED
  BY <1>1, <1>2, <1>3

(* It depends on the later places only.                                    *)
LEMMA DecodeAtLocal ==
  ASSUME NEW s \in Seq(Byte), NEW i \in 1..Len(s)+1, NEW f, NEW g,
         \A j \in i+1 .. Len(s)+1 : f[j] = g[j]
  PROVE  DecodeAt(s, f, i) = DecodeAt(s, g, i)
<1>1. ~(i > Len(s)) /\ IsEscape(s, i) => f[i+3] = g[i+3]
  BY EscapeOctet
<1>2. ~(i > Len(s)) => f[i+1] = g[i+1]
  BY EscapeOctet
<1>. QED
  BY <1>1, <1>2, Zenon DEF DecodeAt

(* The recursion has a solution: one for the last places is extended to    *)
(* the place before them.                                                  *)
LEMMA DecodeExists ==
  ASSUME NEW s \in Seq(Byte)
  PROVE  \E f : f = [i \in 1..Len(s)+1 |-> DecodeAt(s, f, i)]
<1>. DEFINE n == Len(s)
            D == 1..n+1
            From(k, f) == /\ DOMAIN f = D
                          /\ \A i \in D : i >= k => f[i] = DecodeAt(s, f, i)
            Bad == {k \in Nat : /\ k <= n + 1
                                /\ ~ \E f : f = [i \in D |-> f[i]]
                                        /\ From(n + 2 - k, f)}
<1>1. n \in Nat
  BY LenProperties
<1>2. Bad = {}
  <2>. SUFFICES ASSUME Bad # {} PROVE FALSE
    OBVIOUS
  <2>1. PICK k \in Bad : \A j \in Bad : k <= j
    <3>. HIDE DEF From
    <3>1. Bad \in SUBSET Nat
      BY Zenon
    <3>. HIDE DEF Bad
    <3>. QED
      BY <3>1, Least, Zenon
  <2>2. k \in Nat /\ k <= n + 1
    BY Zenon
  <2>3. CASE k = 0
    <3>1. PICK f : f = [i \in D |-> <<>>]
      BY Zenon
    <3>2. f = [i \in D |-> f[i]] /\ DOMAIN f = D
      BY <3>1, Zenon
    <3>3. \A i \in D : ~(i >= n + 2 - k)
      BY <1>1, <2>3
    <3>4. From(n + 2 - k, f)
      <4>. HIDE DEF D
      <4>. QED BY <3>2, <3>3, Zenon
    <3>. QED
      BY <3>2, <3>4, Zenon
  <2>4. CASE k # 0
    <3>1. k - 1 \in Nat /\ k - 1 <= n + 1 /\ ~(k <= k - 1)
      BY <2>2, <2>4, <1>1
    <3>2. k - 1 \notin Bad
      <4>. HIDE DEF Bad
      <4>. QED BY <2>1, <3>1, Zenon
    <3>3. PICK f : f = [i \in D |-> f[i]] /\ From(n + 2 - (k - 1), f)
      <4>. HIDE DEF From, D
      <4>. QED BY <3>1, <3>2, Zenon
    <3>. DEFINE p == n + 2 - k
                g == [i \in D |-> IF i = p THEN DecodeAt(s, f, i) ELSE f[i]]
    <3>4. p \in D /\ (\A i \in D : i >= p => i = p \/ i >= n + 2 - (k - 1))
          /\ (\A i \in D : i >= p => \A j \in i+1..n+1 : j \in D /\ j # p)
      <4>. HIDE DEF Bad
      <4>. QED BY <1>1, <2>2, <2>4
    <3>5. DOMAIN g = D /\ \A i \in D : g[i] = IF i = p THEN DecodeAt(s, f, i) ELSE f[i]
      <4>. HIDE DEF D, p
      <4>. QED BY Zenon
    <3>. HIDE DEF g, p
    <3>6. ASSUME NEW i \in D, i >= p PROVE g[i] = DecodeAt(s, g, i)
      <4>1. \A j \in i+1 .. n+1 : f[j] = g[j]
        BY <3>4, <3>5, <3>6, Zenon
      <4>2. DecodeAt(s, f, i) = DecodeAt(s, g, i)
        BY <4>1, DecodeAtLocal, Zenon
      <4>3. CASE i = p
        BY <3>5, <4>2, <4>3, Zenon
      <4>4. CASE i # p
        <5>1. f[i] = DecodeAt(s, f, i)
          BY <3>3, <3>4, <3>6, <4>4, Zenon
        <5>. QED
          BY <3>5, <4>2, <4>4, <5>1, Zenon
      <4>. QED
        BY <4>3, <4>4
    <3>7. g = [i \in D |-> g[i]]
      <4>. HIDE DEF D
      <4>. QED BY Zenon DEF g
    <3>8. From(p, g)
      BY <3>5, <3>6, Zenon
    <3>9. k \notin Bad
      <4>. HIDE DEF From, D
      <4>. QED BY <3>7, <3>8, Zenon DEF p
    <3>. QED
      BY <3>9
  <2>. QED
    BY <2>3, <2>4
<1>3. PICK f : f = [i \in D |-> f[i]] /\ From(1, f)
  <2>1. n + 1 \in Nat /\ n + 1 <= n + 1 /\ n + 2 - (n + 1) = 1
    BY <1>1
  <2>2. n + 1 \notin Bad
    BY <1>2, Zenon
  <2>. HIDE DEF From, D
  <2>. QED
    BY <2>1, <2>2, Zenon
<1>4. \A i \in D : i >= 1
  BY <1>1
<1>5. \A i \in D : f[i] = DecodeAt(s, f, i)
  BY <1>3, <1>4, Zenon
<1>6. f = [i \in D |-> DecodeAt(s, f, i)]
  <2>. HIDE DEF D
  <2>. QED BY <1>3, <1>5, Zenon
<1>. QED
  BY <1>6, Zenon

(* percent_decode solves it.                                               *)
LEMMA PercentDecodeIs ==
  ASSUME NEW s \in Seq(Byte)
  PROVE  \E f : /\ \A i \in 1..Len(s)+1 : f[i] = DecodeAt(s, f, i)
                /\ PercentDecode(s) = f[1]
<1>. DEFINE F == CHOOSE f : f = [i \in 1..Len(s)+1 |-> DecodeAt(s, f, i)]
<1>1. F = [i \in 1..Len(s)+1 |-> DecodeAt(s, F, i)]
  BY DecodeExists, Zenon
<1>2. PercentDecode(s) = F[1]
  BY Zenon DEF PercentDecode, DecodeAt
<1>. HIDE DEF F
<1>3. \A i \in 1..Len(s)+1 : F[i] = DecodeAt(s, F, i)
  BY <1>1, Zenon
<1>. QED
  BY <1>2, <1>3, Zenon

(* What is decoded is a sequence of octets: were there places where it is  *)
(* not, the last of them would be one.                                     *)
LEMMA Decoded ==
  ASSUME NEW s \in Seq(Byte)
  PROVE  PercentDecode(s) \in Seq(Octet)
<1>. DEFINE n == Len(s)
<1>1. PICK f : /\ \A i \in 1..n+1 : f[i] = DecodeAt(s, f, i)
               /\ PercentDecode(s) = f[1]
  BY PercentDecodeIs, Zenon
<1>2. n \in Nat
  BY LenProperties
<1>. DEFINE Bad == {k \in Nat : k <= n /\ f[n + 1 - k] \notin Seq(Octet)}
<1>3. Bad = {}
  <2>. SUFFICES ASSUME Bad # {} PROVE FALSE
    OBVIOUS
  <2>1. PICK k \in Bad : \A j \in Bad : k <= j
    <3>1. Bad \in SUBSET Nat
      BY Zenon
    <3>. HIDE DEF Bad
    <3>. QED
      BY <3>1, Least, Zenon
  <2>2. k \in Nat /\ k <= n /\ f[n + 1 - k] \notin Seq(Octet)
    BY Zenon
  <2>3. \A j \in n+1-k+1 .. n+1 : /\ n + 1 - j \in Nat /\ n + 1 - j <= n
                                  /\ ~(k <= n + 1 - j) /\ n + 1 - (n + 1 - j) = j
    BY <1>2, <2>2
  <2>4. \A j \in n+1-k+1 .. n+1 : f[j] \in Seq(Octet)
    <3>. TAKE j \in n+1-k+1 .. n+1
    <3>1. n + 1 - j \notin Bad
      <4>. HIDE DEF Bad
      <4>. QED BY <2>1, <2>3, Zenon
    <3>2. f[n + 1 - (n + 1 - j)] \in Seq(Octet)
      BY <2>3, <3>1, Zenon
    <3>. QED
      BY <2>3, <3>2, Zenon
  <2>5. n + 1 - k \in 1..n+1
    BY <1>2, <2>2
  <2>6. DecodeAt(s, f, n + 1 - k) \in Seq(Octet)
    BY <2>4, <2>5, DecodeAtType, Zenon
  <2>. QED
    BY <1>1, <2>2, <2>5, <2>6, Zenon
<1>4. n \in Nat /\ n <= n /\ n + 1 - n = 1
  BY <1>2
<1>5. f[n + 1 - n] \in Seq(Octet)
  <2>1. n \notin Bad
    BY <1>3, Zenon
  <2>. QED
    BY <1>4, <2>1, Zenon
<1>. QED
  BY <1>1, <1>4, <1>5, Zenon

(* What is left of a sequence after its first bytes is one again.          *)
LEMMA AfterType ==
  ASSUME NEW T, NEW s \in Seq(T), NEW n \in Nat
  PROVE  After(s, n) \in Seq(T)
<1>1. Len(s) \in Nat /\ \A k \in n+1 .. Len(s) : s[k] \in T
  BY LenProperties, ElementOfSeq
<1>. QED
  BY <1>1, SubSeqProperties DEF After

(* The path of a url is a sequence of bytes.                               *)
LEMMA PathPartType ==
  ASSUME NEW url \in Seq(Byte)
  PROVE  PathPart(url) \in Seq(Byte)
<1>. DEFINE rest    == After(url, Len(FileScheme))
            slashes == {i \in DOMAIN rest : rest[i] = Slash}
            first   == CHOOSE i \in slashes : \A j \in slashes : i <= j
<1>1. rest \in Seq(Byte)
  <2>1. Len(FileScheme) \in Nat
    BY DEF FileScheme
  <2>. QED
    BY <2>1, AfterType, Zenon
<1>2. ASSUME slashes # {} PROVE first - 1 \in Nat
  <2>1. slashes \in SUBSET Nat /\ (\A i \in slashes : i \in Nat /\ i >= 1)
    <3>1. DOMAIN rest = 1..Len(rest) /\ Len(rest) \in Nat
      BY <1>1, LenProperties
    <3>. HIDE DEF rest
    <3>. QED
      BY <3>1
  <2>2. first \in slashes
    <3>1. \E i \in slashes : \A j \in slashes : i <= j
      <4>. HIDE DEF slashes
      <4>. QED
        BY <1>2, <2>1, Least, Zenon
    <3>. HIDE DEF slashes
    <3>. QED
      BY <3>1, Zenon
  <2>. HIDE DEF first
  <2>. QED
    BY <2>1, <2>2
<1>3. CASE ~StartsWith(url, FileScheme)
  BY <1>3, Zenon DEF PathPart
<1>4. CASE StartsWith(url, FileScheme) /\ slashes = {}
  <2>1. PathPart(url) = rest
    BY <1>4, Zenon DEF PathPart
  <2>. QED
    BY <1>1, <2>1, Zenon
<1>5. CASE StartsWith(url, FileScheme) /\ slashes # {}
  <2>1. PathPart(url) = After(rest, first - 1)
    BY <1>5, Zenon DEF PathPart
  <2>. HIDE DEF rest, slashes, first
  <2>. QED
    BY <1>1, <1>2, <1>5, <2>1, AfterType, Zenon
<1>. QED
  BY <1>3, <1>4, <1>5, Zenon

(* The directory is a sequence of octets.                                  *)
LEMMA PathOfType ==
  ASSUME NEW url \in Seq(Byte)
  PROVE  PathOf(url) \in Seq(Octet)
<1>1. PercentDecode(PathPart(url)) \in Seq(Octet)
  BY PathPartType, Decoded, Zenon
<1>2. \A p \in Seq(Octet) : WithoutSlash(p) \in Seq(Octet)
  <2>1. \A p \in Seq(Octet) : After(p, 1) \in Seq(Octet)
    BY AfterType
  <2>. QED
    BY <2>1, Zenon DEF WithoutSlash
<1>. QED
  BY <1>1, <1>2, Zenon DEF PathOf

-----------------------------------------------------------------------------
(* percent_decode and the rest of handle_osc7_url against what shells mean. *)
(* The first byte of a tail, and the tail after it.                        *)
LEMMA TailFront ==
  ASSUME NEW q \in Seq(Byte), NEW k \in 1..Len(q)
  PROVE  /\ SubSeq(q, k, Len(q)) = <<q[k]>> \o SubSeq(q, k + 1, Len(q))
         /\ SubSeq(q, k, Len(q)) \in Seq(Byte)
<1>. DEFINE n == Len(q)
            a == SubSeq(q, k, n)
            b == SubSeq(q, k + 1, n)
<1>1. n \in Nat /\ \A i \in 1..n : q[i] \in Byte
  BY LenProperties, ElementOfSeq
<1>2. /\ a \in Seq(Byte) /\ Len(a) = n - k + 1
      /\ \A i \in 1..n-k+1 : a[i] = q[k + i - 1]
  BY <1>1, SubSeqProperties
<1>3. /\ b \in Seq(Byte) /\ Len(b) = n - k
      /\ \A i \in 1..n-k : b[i] = q[k + i]
  BY <1>1, SubSeqProperties
<1>. HIDE DEF a, b
<1>4. <<q[k]>> \in Seq(Byte) /\ Len(<<q[k]>>) = 1 /\ <<q[k]>>[1] = q[k]
  BY <1>1
<1>5. /\ <<q[k]>> \o b \in Seq(Byte) /\ Len(<<q[k]>> \o b) = n - k + 1
      /\ \A i \in 1..n-k+1 : (<<q[k]>> \o b)[i] = IF i = 1 THEN q[k] ELSE b[i - 1]
  BY <1>1, <1>3, <1>4, ConcatProperties
<1>6. ASSUME NEW i \in 1..n-k+1 PROVE a[i] = (<<q[k]>> \o b)[i]
  <2>1. CASE i = 1
    BY <1>1, <1>2, <1>5, <2>1
  <2>2. CASE i # 1
    <3>1. i - 1 \in 1..n-k /\ k + (i - 1) = k + i - 1
      BY <1>1, <2>2
    <3>. QED
      BY <1>2, <1>3, <1>5, <2>2, <3>1
  <2>. QED
    BY <2>1, <2>2
<1>. QED
  BY <1>2, <1>5, <1>6, SeqEqual DEF a, b

(* percent_decode undoes every way to encode a path.                       *)
THEOREM DecodesEncoded ==
  ASSUME NEW u \in Seq(Byte), NEW q \in Seq(Byte), Encodes(u, q)
  PROVE  PercentDecode(u) = q
<1>. DEFINE n == Len(q)
            Rest(k) == SubSeq(q, k, n)
<1>1. n \in Nat /\ Len(u) \in Nat
  BY LenProperties
<1>2. PICK f : /\ \A i \in 1..Len(u)+1 : f[i] = DecodeAt(u, f, i)
               /\ PercentDecode(u) = f[1]
  BY PercentDecodeIs, Zenon
<1>3. PICK c \in [1..n+1 -> 1..Len(u)+1] :
        /\ c[1] = 1 /\ c[n+1] = Len(u) + 1
        /\ \A k \in 1..n :
             \/ c[k+1] = c[k] + 1 /\ u[c[k]] = q[k] /\ q[k] # 37
             \/ /\ c[k+1] = c[k] + 3 /\ IsEscape(u, c[k])
                /\ q[k] = 16 * HexDigit(u[c[k]+1]) + HexDigit(u[c[k]+2])
  BY Zenon DEF Encodes
<1>4. ASSUME NEW k \in 1..n, f[c[k+1]] = Rest(k + 1)
      PROVE  f[c[k]] = Rest(k)
  <2>1. /\ c[k] \in 1..Len(u)+1 /\ c[k+1] \in 1..Len(u)+1
        /\ (c[k+1] = c[k] + 1 \/ c[k+1] = c[k] + 3)
    <3>1. k \in 1..n+1 /\ k + 1 \in 1..n+1
      BY <1>1
    <3>. QED
      BY <1>3, <3>1, Zenon
  <2>2. ~(c[k] > Len(u))
    <3>1. \A x, y \in 1..Len(u)+1 : y = x + 1 \/ y = x + 3 => ~(x > Len(u))
      BY <1>1
    <3>. QED
      BY <2>1, <3>1, Zenon
  <2>3. f[c[k]] = DecodeAt(u, f, c[k])
    BY <1>2, <2>1
  <2>4. Rest(k) = <<q[k]>> \o Rest(k + 1)
    BY TailFront, Zenon
  <2>. HIDE DEF Rest
  <2>5. CASE c[k+1] = c[k] + 1 /\ u[c[k]] = q[k] /\ q[k] # 37
    <3>1. ~IsEscape(u, c[k])
      BY <2>5, Zenon DEF IsEscape
    <3>2. DecodeAt(u, f, c[k]) = <<u[c[k]]>> \o f[c[k]+1]
      BY <2>2, <3>1, Zenon DEF DecodeAt
    <3>. QED
      BY <1>4, <2>3, <2>4, <2>5, <3>2, Zenon
  <2>6. CASE /\ c[k+1] = c[k] + 3 /\ IsEscape(u, c[k])
             /\ q[k] = 16 * HexDigit(u[c[k]+1]) + HexDigit(u[c[k]+2])
    <3>1. DecodeAt(u, f, c[k]) =
            <<16 * HexDigit(u[c[k]+1]) + HexDigit(u[c[k]+2])>> \o f[c[k]+3]
      BY <2>2, <2>6, Zenon DEF DecodeAt
    <3>. QED
      BY <1>4, <2>3, <2>4, <2>6, <3>1, Zenon
  <2>. QED
    BY <1>3, <2>5, <2>6, Zenon
<1>5. f[c[n+1]] = Rest(n + 1)
  <2>1. f[Len(u) + 1] = <<>>
    <3>1. Len(u) + 1 \in 1..Len(u)+1 /\ Len(u) + 1 > Len(u)
      BY <1>1
    <3>. QED
      BY <1>2, <3>1, Zenon DEF DecodeAt
  <2>2. Rest(n + 1) = <<>>
    <3>1. \A i \in n+1 .. n : q[i] \in Byte
      BY <1>1
    <3>2. Rest(n + 1) \in Seq(Byte) /\ Len(Rest(n + 1)) = 0
      BY <1>1, <3>1, SubSeqProperties
    <3>. QED
      BY <3>2, EmptySeq
  <2>. QED
    BY <1>3, <2>1, <2>2, Zenon
<1>. HIDE DEF Rest
<1>. DEFINE Bad == {j \in Nat : j <= n /\ f[c[n + 1 - j]] # Rest(n + 1 - j)}
<1>6. Bad = {}
  <2>. SUFFICES ASSUME Bad # {} PROVE FALSE
    OBVIOUS
  <2>1. PICK j \in Bad : \A i \in Bad : j <= i
    <3>1. Bad \in SUBSET Nat
      BY Zenon
    <3>. HIDE DEF Bad
    <3>. QED
      BY <3>1, Least, Zenon
  <2>2. j \in Nat /\ j <= n /\ f[c[n + 1 - j]] # Rest(n + 1 - j)
    BY Zenon
  <2>3. j # 0
    <3>1. n + 1 - 0 = n + 1
      BY <1>1
    <3>. QED
      BY <1>5, <2>2, <3>1, Zenon
  <2>4. /\ j - 1 \in Nat /\ j - 1 <= n /\ ~(j <= j - 1)
        /\ n + 1 - (j - 1) = (n + 1 - j) + 1 /\ n + 1 - j \in 1..n
    <3>. HIDE DEF Bad
    <3>. QED
      BY <1>1, <2>2, <2>3
  <2>5. j - 1 \notin Bad
    <3>. HIDE DEF Bad
    <3>. QED
      BY <2>1, <2>4, Zenon
  <2>6. f[c[(n + 1 - j) + 1]] = Rest((n + 1 - j) + 1)
    BY <2>4, <2>5, Zenon
  <2>. QED
    BY <1>4, <2>2, <2>4, <2>6, Zenon
<1>7. f[c[1]] = Rest(1)
  <2>1. n \in Nat /\ n <= n /\ n + 1 - n = 1
    BY <1>1
  <2>2. n \notin Bad
    BY <1>6, Zenon
  <2>3. f[c[n + 1 - n]] = Rest(n + 1 - n)
    BY <2>1, <2>2, Zenon
  <2>. QED
    BY <2>1, <2>3, Zenon
<1>8. Rest(1) = q
  BY DEF Rest
<1>. QED
  BY <1>2, <1>3, <1>7, <1>8, Zenon

(* The path of a file URL begins at its first slash after the scheme.      *)
LEMMA PathPartSays ==
  ASSUME NEW url \in Seq(Byte), StartsWith(url, FileScheme),
         NEW h \in Len(FileScheme) .. Len(url)-1, url[h+1] = Slash,
         \A i \in Len(FileScheme)+1 .. h : url[i] # Slash
  PROVE  PathPart(url) = After(url, h)
<1>. DEFINE n       == Len(url)
            rest    == After(url, Len(FileScheme))
            slashes == {i \in DOMAIN rest : rest[i] = Slash}
            first   == CHOOSE i \in slashes : \A j \in slashes : i <= j
<1>1. /\ n \in Nat /\ Len(FileScheme) = 7 /\ h \in 7..n-1
      /\ \A i \in 1..n : url[i] \in Byte
  BY LenProperties, ElementOfSeq DEF FileScheme
<1>2. /\ rest \in Seq(Byte) /\ Len(rest) = n - 7 /\ DOMAIN rest = 1..n-7
      /\ \A i \in 1..n-7 : rest[i] = url[7 + i]
  <2>1. rest = SubSeq(url, 8, n)
    BY <1>1 DEF After
  <2>2. \A i \in 8..n : url[i] \in Byte
    BY <1>1
  <2>3. /\ SubSeq(url, 8, n) \in Seq(Byte) /\ Len(SubSeq(url, 8, n)) = n - 7
        /\ \A i \in 1..n-7 : SubSeq(url, 8, n)[i] = url[7 + i]
    BY <1>1, <2>2, SubSeqProperties
  <2>. HIDE DEF rest
  <2>. QED
    BY <2>1, <2>3, LenProperties
<1>. HIDE DEF rest
<1>3. h - 6 \in slashes /\ (\A j \in slashes : h - 6 <= j)
      /\ (\A j \in slashes : j \in Nat)
  <2>1. h - 6 \in 1..n-7 /\ 7 + (h - 6) = h + 1
    BY <1>1
  <2>2. rest[h - 6] = Slash
    BY <1>2, <2>1
  <2>3. ASSUME NEW j \in 1..n-7, rest[j] = Slash PROVE h - 6 <= j
    <3>1. url[7 + j] = Slash /\ 7 + j \in Nat
      BY <1>2, <2>3
    <3>2. 7 + j >= 8
      BY <1>1
    <3>3. ~(7 + j <= h)
      BY <1>1, <3>1, <3>2
    <3>. QED
      BY <1>1, <3>3
  <2>. QED
    BY <1>1, <1>2, <2>1, <2>2, <2>3
<1>4. first = h - 6
  <2>1. first \in slashes /\ \A j \in slashes : first <= j
    <3>. HIDE DEF slashes
    <3>. QED
      BY <1>3, Zenon
  <2>2. first <= h - 6 /\ h - 6 <= first /\ first \in Nat /\ h - 6 \in Nat
    <3>. HIDE DEF slashes, first
    <3>. QED
      BY <1>3, <2>1, Zenon
  <2>. HIDE DEF first
  <2>. QED
    BY <2>2
<1>5. PathPart(url) = After(rest, first - 1)
  <2>1. slashes # {}
    BY <1>3, Zenon
  <2>. QED
    BY <2>1, Zenon DEF PathPart, rest
<1>6. first - 1 = h - 7
  <2>. HIDE DEF first
  <2>. QED
    BY <1>1, <1>4
<1>7. After(rest, h - 7) = After(url, h)
  <2>1. \A i \in h-6 .. n-7 : rest[i] \in Byte
    BY <1>1, <1>2
  <2>2. \A i \in h+1 .. n : url[i] \in Byte
    BY <1>1
  <2>3. /\ SubSeq(rest, h - 6, n - 7) \in Seq(Byte)
        /\ Len(SubSeq(rest, h - 6, n - 7)) = n - h
        /\ \A i \in 1..n-h : SubSeq(rest, h - 6, n - 7)[i] = rest[h - 6 + i - 1]
    BY <1>1, <1>2, <2>1, SubSeqProperties
  <2>4. /\ SubSeq(url, h + 1, n) \in Seq(Byte)
        /\ Len(SubSeq(url, h + 1, n)) = n - h
        /\ \A i \in 1..n-h : SubSeq(url, h + 1, n)[i] = url[h + 1 + i - 1]
    BY <1>1, <2>2, SubSeqProperties
  <2>5. ASSUME NEW i \in 1..n-h PROVE rest[h - 6 + i - 1] = url[h + 1 + i - 1]
    <3>1. h - 6 + i - 1 \in 1..n-7 /\ 7 + (h - 6 + i - 1) = h + 1 + i - 1
      BY <1>1
    <3>. QED
      BY <1>2, <3>1, Zenon
  <2>6. SubSeq(rest, h - 6, n - 7) = SubSeq(url, h + 1, n)
    <3>1. \A i \in 1..n-h :
            SubSeq(rest, h - 6, n - 7)[i] = SubSeq(url, h + 1, n)[i]
      BY <2>3, <2>4, <2>5, Zenon
    <3>. QED
      BY <2>3, <2>4, <3>1, SeqEqual, ZenonT(40)
  <2>7. h - 7 + 1 = h - 6
    BY <1>1
  <2>. QED
    BY <1>2, <2>6, <2>7, Zenon DEF After
<1>. QED
  BY <1>5, <1>6, <1>7, Zenon

(* The slash before a drive is dropped, and no other.                      *)
LEMMA WithoutSlashSays ==
  ASSUME NEW path \in Seq(Byte), NEW q \in {path, <<Slash>> \o path},
         IF q = path THEN ~ (Len(q) >= 3 /\ q[1] = Slash /\ q[3] = 58)
                     ELSE Len(q) >= 3 /\ q[3] = 58
  PROVE  q \in Seq(Byte) /\ WithoutSlash(q) = path
<1>1. CASE q = path
  BY <1>1, Zenon DEF WithoutSlash
<1>2. CASE q # path /\ q = <<Slash>> \o path
  <2>. DEFINE n == Len(path)
  <2>1. /\ <<Slash>> \in Seq(Byte) /\ Len(<<Slash>>) = 1 /\ <<Slash>>[1] = Slash
        /\ n \in Nat /\ \A i \in 1..n : path[i] \in Byte
    BY LenProperties, ElementOfSeq DEF Slash, Byte
  <2>2. /\ q \in Seq(Byte) /\ Len(q) = n + 1 /\ q[1] = Slash
        /\ \A i \in 1..n+1 : i > 1 => q[i] = path[i - 1]
    BY <1>2, <2>1, ConcatProperties
  <2>3. \A i \in 2..n+1 : q[i] \in Byte
    BY <2>2, ElementOfSeq
  <2>4. /\ SubSeq(q, 2, n + 1) \in Seq(Byte) /\ Len(SubSeq(q, 2, n + 1)) = n
        /\ \A i \in 1..n : SubSeq(q, 2, n + 1)[i] = q[2 + i - 1]
    BY <2>1, <2>2, <2>3, SubSeqProperties
  <2>5. \A i \in 1..n : q[2 + i - 1] = path[i]
    BY <2>1, <2>2
  <2>6. SubSeq(q, 2, n + 1) = path
    BY <2>4, <2>5, SeqEqual
  <2>7. WithoutSlash(q) = After(q, 1)
    BY <1>2, <2>2, Zenon DEF WithoutSlash
  <2>8. 1 + 1 = 2
    OBVIOUS
  <2>. QED
    BY <2>2, <2>6, <2>7, <2>8, Zenon DEF After
<1>. QED
  BY <1>1, <1>2

(* What a url says is what becomes of it.                                  *)
THEOREM UrlRead ==
  ASSUME NEW url \in Seq(Byte), NEW path \in Seq(Byte), Says(url, path)
  PROVE  PathOf(url) = path
<1>1. PICK q \in {path, <<Slash>> \o path} :
        /\ IF q = path THEN ~ (Len(q) >= 3 /\ q[1] = Slash /\ q[3] = 58)
                       ELSE Len(q) >= 3 /\ q[3] = 58
        /\ \/ ~StartsWith(url, FileScheme) /\ Encodes(url, q)
           \/ /\ StartsWith(url, FileScheme)
              /\ \E h \in Len(FileScheme) .. Len(url)-1 :
                   /\ url[h+1] = Slash
                   /\ \A i \in Len(FileScheme)+1 .. h : url[i] # Slash
                   /\ Encodes(After(url, h), q)
  BY Zenon DEF Says
<1>2. q \in Seq(Byte) /\ WithoutSlash(q) = path
  <2>1. IF q = path THEN ~ (Len(q) >= 3 /\ q[1] = Slash /\ q[3] = 58)
                    ELSE Len(q) >= 3 /\ q[3] = 58
    BY <1>1, Zenon
  <2>. QED
    BY <2>1, WithoutSlashSays, ZenonT(40)
<1>3. CASE ~StartsWith(url, FileScheme) /\ Encodes(url, q)
  <2>1. PathPart(url) = url
    BY <1>3, Zenon DEF PathPart
  <2>2. PercentDecode(url) = q
    BY <1>2, <1>3, DecodesEncoded, Zenon
  <2>. QED
    BY <1>2, <2>1, <2>2, Zenon DEF PathOf
<1>4. CASE /\ StartsWith(url, FileScheme)
           /\ \E h \in Len(FileScheme) .. Len(url)-1 :
                /\ url[h+1] = Slash
                /\ \A i \in Len(FileScheme)+1 .. h : url[i] # Slash
                /\ Encodes(After(url, h), q)
  <2>1. PICK h \in Len(FileScheme) .. Len(url)-1 :
               /\ url[h+1] = Slash
               /\ \A i \in Len(FileScheme)+1 .. h : url[i] # Slash
               /\ Encodes(After(url, h), q)
    BY <1>4, Zenon
  <2>2. PathPart(url) = After(url, h)
    BY <1>4, <2>1, PathPartSays, Zenon
  <2>3. After(url, h) \in Seq(Byte)
    BY <2>2, PathPartType, Zenon
  <2>4. PercentDecode(After(url, h)) = q
    BY <1>2, <2>1, <2>3, DecodesEncoded, Zenon
  <2>. QED
    BY <1>2, <2>2, <2>4, Zenon DEF PathOf
<1>. QED
  BY <1>1, <1>3, <1>4, Zenon

-----------------------------------------------------------------------------
(* ReadsWhole.                                                             *)

(* What the control was told is the length still, unless there was a       *)
(* report since.                                                           *)
ReadInv ==
  /\ cwd \in Seq(Octet) /\ asked \in Nat \cup {-1}
  /\ asked >= 0 /\ quiet => asked = Len(cwd)

(* A read is whole when nothing was reported between its two calls, and    *)
(* fits its buffer always: ReadsWhole of Osc7.                             *)
THEOREM Whole == Spec => []ReadsWhole
<1>1. Init => ReadInv /\ ReadsWhole
  <2>. SUFFICES ASSUME Init PROVE ReadInv /\ ReadsWhole
    OBVIOUS
  <2>1. cwd = <<>> /\ asked = -1
        /\ got.text = <<>> /\ got.of = <<>> /\ got.cap = 1
    BY DEF Init
  <2>2. SubSeq(<<>>, 1, Len(<<>>)) = <<>> /\ Len(<<>>) = 0
    OBVIOUS
  <2>. QED
    BY <2>1, <2>2, EmptySeq DEF ReadInv, ReadsWhole
<1>2. TypeOK /\ ReadInv /\ ReadsWhole /\ [Next]_vars => (ReadInv /\ ReadsWhole)'
  <2>. SUFFICES ASSUME TypeOK, ReadInv, ReadsWhole, [Next]_vars
                PROVE  (ReadInv /\ ReadsWhole)'
    OBVIOUS
  <2>1. ASSUME NEW p \in Pieces, Write(p) PROVE (ReadInv /\ ReadsWhole)'
    BY <2>1 DEF Write, readVars, ReadInv, ReadsWhole
  <2>2. CASE Scan
    <3>1. asked' = asked /\ got' = got
      BY <2>2 DEF Scan
    <3>2. CASE cwd' = cwd /\ quiet' = quiet
      BY <3>1, <3>2 DEF ReadInv, ReadsWhole
    <3>3. CASE cwd' = PathOf(buf) /\ quiet' = FALSE
      <4>1. buf \in Seq(Byte)
        BY SeqMonotonic DEF TypeOK
      <4>2. cwd' \in Seq(Octet)
        BY <3>3, <4>1, PathOfType, Zenon
      <4>. QED
        BY <3>1, <3>3, <4>2, Zenon DEF ReadInv, ReadsWhole
    <3>4. \/ cwd' = cwd /\ quiet' = quiet
          \/ cwd' = PathOf(buf) /\ quiet' = FALSE
      BY <2>2, Zenon DEF Scan, ScanIntro, ScanUrl, Report
    <3>. QED
      BY <3>2, <3>3, <3>4, Zenon
  <2>3. CASE AskLength
    <3>1. cwd' = cwd /\ got' = got /\ asked' = Len(cwd)
      BY <2>3 DEF AskLength, scanVars
    <3>2. Len(cwd) \in Nat
      BY LenProperties DEF ReadInv
    <3>. QED
      BY <3>1, <3>2 DEF ReadInv, ReadsWhole
  <2>4. CASE Copy
    <3>. DEFINE n == Copied(Len(cwd), BufferFor(asked))
    <3>1. /\ got'.text = SubSeq(cwd, 1, n) /\ got'.of = cwd
          /\ got'.cap = asked + 1 /\ (got'.quiet <=> quiet)
          /\ asked >= 0 /\ asked' = -1 /\ cwd' = cwd
      BY <2>4 DEF Copy, BufferFor, scanVars
    <3>2. asked \in Nat /\ Len(cwd) \in Nat
      BY <3>1, LenProperties DEF ReadInv
    <3>3. n \in 0..Len(cwd) /\ n <= asked /\ (asked = Len(cwd) => n = Len(cwd))
      BY <3>2 DEF Copied, BufferFor
    <3>4. Len(SubSeq(cwd, 1, n)) = n
      <4>1. \A k \in 1..n : cwd[k] \in Octet
        BY <3>2, <3>3, ElementOfSeq DEF ReadInv
      <4>. HIDE DEF n
      <4>. QED
        BY <3>2, <3>3, <4>1, SubSeqProperties
    <3>5. SubSeq(cwd, 1, Len(cwd)) = cwd
      BY DEF ReadInv
    <3>6. ReadInv'
      BY <3>1 DEF ReadInv
    <3>7. got'.quiet => asked = Len(cwd)
      BY <3>1, Zenon DEF ReadInv
    <3>. HIDE DEF n
    <3>8. Len(got'.text) = n /\ Len(got'.text) < got'.cap
      BY <3>1, <3>2, <3>3, <3>4
    <3>9. got'.text = SubSeq(got'.of, 1, Len(got'.text))
      BY <3>1, <3>8, Zenon
    <3>10. got'.quiet => got'.text = got'.of
      BY <3>1, <3>3, <3>5, <3>7, Zenon
    <3>. QED
      BY <3>6, <3>8, <3>9, <3>10, Zenon DEF ReadsWhole
  <2>5. CASE UNCHANGED vars
    BY <2>5 DEF vars, ReadInv, ReadsWhole
  <2>. QED
    BY <2>1, <2>2, <2>3, <2>4, <2>5 DEF Next
<1>. QED
  BY <1>1, <1>2, Typed, PTL DEF Spec

-----------------------------------------------------------------------------
(* PathTrue.                                                               *)

(* The whole output, scanned or not.                                       *)
Output == seen \o input

(* An announcement stands in out where the history says, and is that of a  *)
(* piece.                                                                  *)
Stands(out, t) ==
  \E p \in Pieces :
    /\ p.end # 0 /\ t.path = p.path
    /\ t.from \in Nat \ {0} /\ t.to = t.from + p.end - 1
    /\ t.from + Len(p.bytes) - 1 <= Len(out)
    /\ \A m \in 1..Len(p.bytes) : out[t.from + m - 1] = p.bytes[m]

(* Every announcement of the history stands in the output.                 *)
ToldInv ==
  /\ told \in Seq([from : Nat, to : Nat, path : Seq(Byte)])
  /\ \A k \in 1..Len(told) : Stands(Output, told[k])

(* The bytes of two pieces of output, one after the other.                 *)
LEMMA Joined ==
  ASSUME NEW a \in Seq(Byte), NEW b \in Seq(Byte)
  PROVE  /\ a \o b \in Seq(Byte) /\ Len(a \o b) = Len(a) + Len(b)
         /\ \A i \in 1..Len(a)+Len(b) :
              (a \o b)[i] = IF i <= Len(a) THEN a[i] ELSE b[i - Len(a)]
         /\ Len(a) \in Nat /\ Len(b) \in Nat
BY ConcatProperties, LenProperties

(* Scanning moves a byte and changes nothing of the output.                *)
LEMMA ScanMoves ==
  ASSUME TypeOK, TypeOK', Scan
  PROVE  Output' = Output
<1>. DEFINE n == Len(seen)
<1>1. /\ input # <<>> /\ input' = Tail(input) /\ input \in Seq(Byte)
      /\ Len(seen') = n + 1 /\ seen'[n + 1] = Head(input)
      /\ \A i \in 1..n : seen'[i] = seen[i]
  BY ScanTakes DEF TypeOK, Scan
<1>2. /\ Len(input') = Len(input) - 1 /\ Head(input) = input[1]
      /\ \A i \in 1..Len(input)-1 : input'[i] = input[i + 1]
      /\ Len(input) \in Nat \ {0}
  BY <1>1, HeadTailProperties, EmptySeq
<1>3. /\ Output \in Seq(Byte) /\ Len(Output) = n + Len(input)
      /\ \A i \in 1..n+Len(input) :
           Output[i] = IF i <= n THEN seen[i] ELSE input[i - n]
      /\ n \in Nat
  BY <1>1, Joined, Zenon DEF TypeOK, Output
<1>4. /\ Output' \in Seq(Byte) /\ Len(Output') = Len(seen') + Len(input')
      /\ \A i \in 1..Len(seen')+Len(input') :
           Output'[i] = IF i <= Len(seen') THEN seen'[i]
                        ELSE input'[i - Len(seen')]
  BY Joined, Zenon DEF TypeOK, Output
<1>5. Len(Output') = n + Len(input)
  BY <1>1, <1>2, <1>3, <1>4
<1>6. ASSUME NEW i \in 1..n+Len(input) PROVE Output'[i] = Output[i]
  <2>0. i \in 1..Len(seen')+Len(input')
    BY <1>1, <1>2, <1>3
  <2>1. CASE i <= n
    <3>1. i \in 1..n /\ i <= n + 1
      BY <1>3, <2>1
    <3>. QED
      BY <1>1, <1>3, <1>4, <2>0, <2>1, <3>1, Zenon
  <2>2. CASE i = n + 1
    <3>1. ~(i <= n) /\ i <= n + 1 /\ i - n = 1
      BY <1>3, <2>2
    <3>. QED
      BY <1>1, <1>2, <1>3, <1>4, <2>0, <2>2, <3>1, Zenon
  <2>3. CASE i > n + 1
    <3>1. /\ ~(i <= n) /\ ~(i <= n + 1) /\ i - (n + 1) \in 1..Len(input)-1
          /\ i - (n + 1) + 1 = i - n
      BY <1>2, <1>3, <2>3
    <3>2. Output'[i] = input'[i - (n + 1)]
      BY <1>1, <1>4, <2>0, <3>1, Zenon
    <3>3. input'[i - (n + 1)] = input[i - n]
      BY <1>2, <3>1, Zenon
    <3>. QED
      BY <1>3, <3>1, <3>2, <3>3, Zenon
  <2>. QED
    BY <1>3, <2>1, <2>2, <2>3
<1>. QED
  BY <1>3, <1>4, <1>5, <1>6, SeqEqual

(* What stands in the output stays when the next piece is written.         *)
LEMMA WriteAdds ==
  ASSUME TypeOK, TypeOK', NEW p \in Pieces, Write(p)
  PROVE  /\ Len(Output') = Len(seen) + Len(p.bytes) /\ Len(Output) = Len(seen)
         /\ \A i \in 1..Len(seen) : Output'[i] = Output[i]
         /\ \A m \in 1..Len(p.bytes) : Output'[Len(seen) + m] = p.bytes[m]
<1>1. /\ input = <<>> /\ Len(input) = 0 /\ input' = p.bytes /\ seen' = seen
      /\ seen \in Seq(Byte) /\ input \in Seq(Byte) /\ p.bytes \in Seq(Byte)
  BY Osc7Assumption DEF Write, TypeOK
<1>2. /\ Len(Output) = Len(seen) + Len(input) /\ Len(seen) \in Nat
      /\ \A i \in 1..Len(seen)+Len(input) :
           Output[i] = IF i <= Len(seen) THEN seen[i] ELSE input[i - Len(seen)]
  BY <1>1, Joined, Zenon DEF Output
<1>3. /\ Len(Output') = Len(seen) + Len(p.bytes) /\ Len(p.bytes) \in Nat
      /\ \A i \in 1..Len(seen)+Len(p.bytes) :
           Output'[i] = IF i <= Len(seen) THEN seen[i]
                        ELSE p.bytes[i - Len(seen)]
  <2>1. Output' = seen \o p.bytes
    BY <1>1, Zenon DEF Output
  <2>. QED
    BY <1>1, <2>1, Joined, Zenon
<1>4. ASSUME NEW m \in 1..Len(p.bytes) PROVE Output'[Len(seen) + m] = p.bytes[m]
  <2>1. /\ Len(seen) + m \in 1..Len(seen)+Len(p.bytes)
        /\ ~(Len(seen) + m <= Len(seen)) /\ (Len(seen) + m) - Len(seen) = m
    BY <1>2, <1>3
  <2>. QED
    BY <1>3, <2>1, Zenon
<1>5. \A i \in 1..Len(seen) : /\ i \in 1..Len(seen)+Len(p.bytes)
                              /\ i \in 1..Len(seen)+Len(input) /\ i <= Len(seen)
  BY <1>1, <1>2, <1>3
<1>6. \A i \in 1..Len(seen) : Output'[i] = Output[i]
  BY <1>2, <1>3, <1>5, Zenon
<1>7. Len(Output) = Len(seen)
  BY <1>1, <1>2
<1>. QED
  BY <1>3, <1>4, <1>6, <1>7

(* Every step keeps the history true.                                      *)
LEMMA ToldStep ==
  ASSUME TypeOK, TypeOK', ToldInv, Next
  PROVE  ToldInv'
<1>1. CASE Scan
  <2>1. Output' = Output /\ told' = told
    BY <1>1, ScanMoves DEF Scan
  <2>. QED
    BY <2>1, Zenon DEF ToldInv
<1>2. CASE AskLength \/ Copy
  <2>1. told' = told /\ seen' = seen /\ input' = input
    BY <1>2 DEF AskLength, Copy, scanVars
  <2>. QED
    BY <2>1, Zenon DEF ToldInv, Output
<1>3. ASSUME NEW p \in Pieces, Write(p) PROVE ToldInv'
  <2>. DEFINE n   == Len(seen)
              new == [from |-> n + 1, to |-> n + p.end, path |-> p.path]
  <2>1. /\ Len(Output') = n + Len(p.bytes) /\ Len(Output) = n
        /\ \A i \in 1..n : Output'[i] = Output[i]
        /\ \A m \in 1..Len(p.bytes) : Output'[n + m] = p.bytes[m]
        /\ n \in Nat
    BY <1>3, WriteAdds, LenProperties DEF TypeOK
  <2>2. /\ p.bytes \in Seq(Byte) /\ Len(p.bytes) \in Nat
        /\ p.end \in Nat /\ p.path \in Seq(Byte)
    BY Osc7Assumption, LenProperties
  <2>. HIDE DEF n
  <2>3. ASSUME NEW t \in [from : Nat, to : Nat, path : Seq(Byte)], Stands(Output, t)
        PROVE  Stands(Output', t)
    <3>1. PICK r \in Pieces :
            /\ r.end # 0 /\ t.path = r.path
            /\ t.from \in Nat \ {0} /\ t.to = t.from + r.end - 1
            /\ t.from + Len(r.bytes) - 1 <= Len(Output)
            /\ \A m \in 1..Len(r.bytes) : Output[t.from + m - 1] = r.bytes[m]
      BY <2>3, Zenon DEF Stands
    <3>2. Len(r.bytes) \in Nat
      BY Osc7Assumption, LenProperties
    <3>3. \A m \in 1..Len(r.bytes) : t.from + m - 1 \in 1..n
      BY <2>1, <3>1, <3>2
    <3>4. \A m \in 1..Len(r.bytes) : Output'[t.from + m - 1] = r.bytes[m]
      BY <2>1, <3>1, <3>3, Zenon
    <3>5. t.from + Len(r.bytes) - 1 <= Len(Output')
      BY <2>1, <2>2, <3>1, <3>2
    <3>. QED
      BY <3>1, <3>4, <3>5, Zenon DEF Stands
  <2>4. ASSUME p.end # 0 PROVE Stands(Output', new)
    <3>1. /\ new.path = p.path /\ new.from = n + 1 /\ new.to = n + p.end
      BY Zenon
    <3>2. n + 1 \in Nat \ {0} /\ n + p.end = (n + 1) + p.end - 1
          /\ (n + 1) + Len(p.bytes) - 1 = n + Len(p.bytes)
          /\ n + Len(p.bytes) <= n + Len(p.bytes)
      <4>1. \A x, e, l \in Nat : /\ x + 1 \in Nat \ {0} /\ x + e = (x + 1) + e - 1
                                /\ (x + 1) + l - 1 = x + l /\ x + l <= x + l
        OBVIOUS
      <4>. QED
        BY <2>1, <2>2, <4>1, Zenon
    <3>3. \A m \in 1..Len(p.bytes) : (n + 1) + m - 1 = n + m
      BY <2>1, <2>2
    <3>4. \A m \in 1..Len(p.bytes) : Output'[(n + 1) + m - 1] = p.bytes[m]
      BY <2>1, <3>3, Zenon
    <3>. HIDE DEF new
    <3>. QED
      BY <2>1, <2>4, <3>1, <3>2, <3>4, Zenon DEF Stands
  <2>5. new \in [from : Nat, to : Nat, path : Seq(Byte)]
    BY <2>1, <2>2
  <2>6. told' = IF p.end = 0 THEN told ELSE Append(told, new)
    BY <1>3 DEF Write, n
  <2>. HIDE DEF new
  <2>7. CASE p.end = 0
    <3>1. told' = told
      BY <2>6, <2>7
    <3>2. \A k \in 1..Len(told) : told[k] \in [from : Nat, to : Nat, path : Seq(Byte)]
      BY ElementOfSeq DEF ToldInv
    <3>. QED
      BY <2>3, <3>1, <3>2, Zenon DEF ToldInv
  <2>8. CASE p.end # 0
    <3>1. told' = Append(told, new)
      BY <2>6, <2>8
    <3>2. /\ told' \in Seq([from : Nat, to : Nat, path : Seq(Byte)])
          /\ Len(told') = Len(told) + 1 /\ told'[Len(told) + 1] = new
          /\ \A k \in 1..Len(told) : told'[k] = told[k]
          /\ Len(told) \in Nat
      BY <2>5, <3>1, AppendProperties, LenProperties DEF ToldInv
    <3>3. \A k \in 1..Len(told) : told[k] \in [from : Nat, to : Nat, path : Seq(Byte)]
      BY ElementOfSeq DEF ToldInv
    <3>4. \A k \in 1..Len(told) : Stands(Output', told'[k])
      BY <2>3, <3>2, <3>3, Zenon DEF ToldInv
    <3>5. Stands(Output', told'[Len(told) + 1])
      BY <2>4, <2>8, <3>2, Zenon
    <3>6. \A k \in 1..Len(told') : k \in 1..Len(told) \/ k = Len(told) + 1
      BY <3>2
    <3>. QED
      BY <3>2, <3>4, <3>5, <3>6, Zenon DEF ToldInv
  <2>. QED
    BY <2>7, <2>8
<1>. QED
  BY <1>1, <1>2, <1>3 DEF Next

(* Two whole sequences with the same end are the same: the ESC of the later*)
(* would end the url of the other.                                         *)
LEMMA OneBegin ==
  ASSUME TypeOK, NEW i, NEW i2, NEW j, Complete(i, j), Complete(i2, j), i <= i2
  PROVE  i = i2
<1>1. /\ i \in Nat /\ i2 \in Nat /\ j \in Nat /\ i2 + 4 <= j
      /\ \A k \in 1..4 : seen[i + k - 1] = Intro[k]
      /\ \A k \in i+4 .. j-1 : seen[k] \notin Ends
      /\ \A k \in 1..4 : seen[i2 + k - 1] = Intro[k]
  BY LenProperties DEF Complete, TypeOK
<1>2. seen[i2] = 27
  <2>1. i2 + 1 - 1 = i2 /\ 1 \in 1..4
    BY <1>1
  <2>. QED
    BY <1>1, <2>1, IntroBytes
<1>3. ~(i2 \in i+4 .. j-1)
  <2>1. seen[i2] \in Ends
    BY <1>2 DEF Ends, ESC
  <2>. QED
    BY <1>1, <2>1, Zenon
<1>4. i2 - i + 1 \in 1..4 /\ i + (i2 - i + 1) - 1 = i2
  BY <1>1, <1>3
<1>5. seen[i2] = Intro[i2 - i + 1]
  BY <1>1, <1>4, Zenon
<1>6. Intro[i2 - i + 1] = 27 => i2 - i + 1 = 1
  BY <1>4, IntroBytes
<1>. QED
  BY <1>1, <1>2, <1>5, <1>6

(* Scanned to its end, an announcement reports the path it was given: its  *)
(* url stands between introducer and end, and says that path.              *)
LEMMA StandsReported ==
  ASSUME TypeOK, NEW t, Stands(Output, t), t.to <= Len(seen), Complete(t.from, t.to)
  PROVE  Reported(t.from, t.to) = t.path
<1>1. PICK p \in Pieces :
        /\ p.end # 0 /\ t.path = p.path
        /\ t.from \in Nat \ {0} /\ t.to = t.from + p.end - 1
        /\ t.from + Len(p.bytes) - 1 <= Len(Output)
        /\ \A m \in 1..Len(p.bytes) : Output[t.from + m - 1] = p.bytes[m]
  BY Zenon DEF Stands
<1>. DEFINE e == p.end
            f == t.from
<1>2. /\ p.bytes \in Seq(Byte) /\ p.path \in Seq(Byte) /\ Len(p.bytes) \in Nat
      /\ \A m \in 1..Len(p.bytes) : p.bytes[m] \in Byte
      /\ Len(Intro) = 4 /\ e \in 5..Len(p.bytes)
      /\ Says(SubSeq(p.bytes, 5, e - 1), p.path)
  <2>1. Len(Intro) = 4 /\ 4 + 1 = 5
    BY IntroBytes
  <2>2. e \in Len(Intro)+1 .. Len(p.bytes)
        /\ Says(SubSeq(p.bytes, Len(Intro) + 1, e - 1), p.path)
    BY <1>1, PiecesSay, Zenon
  <2>3. p.bytes \in Seq(Byte) /\ p.path \in Seq(Byte)
    BY Osc7Assumption
  <2>4. Len(p.bytes) \in Nat /\ \A m \in 1..Len(p.bytes) : p.bytes[m] \in Byte
    BY <2>3, LenProperties, ElementOfSeq
  <2>. QED
    BY <2>1, <2>2, <2>3, <2>4, Zenon
<1>3. /\ Len(seen) \in Nat /\ Len(input) \in Nat
      /\ \A i \in 1..Len(seen) : seen[i] \in Byte
      /\ \A i \in 1..Len(seen)+Len(input) :
           Output[i] = IF i <= Len(seen) THEN seen[i] ELSE input[i - Len(seen)]
  <2>1. \A i \in 1..Len(seen) : seen[i] \in Byte
    BY ElementOfSeq DEF TypeOK
  <2>. QED
    BY <2>1, Joined, Zenon DEF TypeOK, Output
<1>4. /\ f \in Nat \ {0} /\ t.to = f + e - 1 /\ f + e - 1 <= Len(seen)
      /\ e \in 5..Len(p.bytes) /\ e \in Nat
  BY <1>1, <1>2
<1>. HIDE DEF e, f
<1>5. ASSUME NEW m \in 1..e PROVE seen[f + m - 1] = p.bytes[m]
  <2>1. /\ f + m - 1 \in 1..Len(seen) /\ f + m - 1 \in 1..Len(seen)+Len(input)
        /\ f + m - 1 <= Len(seen) /\ m \in 1..Len(p.bytes)
    BY <1>2, <1>3, <1>4
  <2>. QED
    BY <1>1, <1>3, <2>1, Zenon DEF f
<1>6. SubSeq(seen, f + 4, f + e - 1 - 1) = SubSeq(p.bytes, 5, e - 1)
  <2>1. \A k \in f + 4 .. f + e - 1 - 1 : seen[k] \in Byte
    BY <1>3, <1>4
  <2>2. \A k \in 5 .. e - 1 : p.bytes[k] \in Byte
    BY <1>2, <1>4
  <2>3. /\ SubSeq(seen, f + 4, f + e - 1 - 1) \in Seq(Byte)
        /\ Len(SubSeq(seen, f + 4, f + e - 1 - 1)) = e - 5
        /\ \A k \in 1..e-5 : SubSeq(seen, f + 4, f + e - 1 - 1)[k]
                               = seen[f + 4 + k - 1]
    BY <1>4, <2>1, SubSeqProperties
  <2>4. /\ SubSeq(p.bytes, 5, e - 1) \in Seq(Byte)
        /\ Len(SubSeq(p.bytes, 5, e - 1)) = e - 5
        /\ \A k \in 1..e-5 : SubSeq(p.bytes, 5, e - 1)[k] = p.bytes[5 + k - 1]
    BY <1>4, <2>2, SubSeqProperties
  <2>5. ASSUME NEW k \in 1..e-5 PROVE seen[f + 4 + k - 1] = p.bytes[5 + k - 1]
    <3>1. 5 + k - 1 \in 1..e /\ f + (5 + k - 1) - 1 = f + 4 + k - 1
      BY <1>4
    <3>. QED
      BY <1>5, <3>1, Zenon
  <2>6. \A k \in 1..e-5 : SubSeq(seen, f + 4, f + e - 1 - 1)[k]
                            = SubSeq(p.bytes, 5, e - 1)[k]
    BY <2>3, <2>4, <2>5, Zenon
  <2>. QED
    BY <2>3, <2>4, <2>6, SeqEqual, Zenon
<1>7. SubSeq(p.bytes, 5, e - 1) \in Seq(Byte)
  <2>1. \A k \in 5 .. e - 1 : p.bytes[k] \in Byte
    BY <1>2, <1>4
  <2>. QED
    BY <1>4, <2>1, SubSeqProperties
<1>8. PathOf(SubSeq(p.bytes, 5, e - 1)) = p.path
  BY <1>2, <1>7, UrlRead, Zenon DEF e
<1>9. Reported(f, t.to) = PathOf(SubSeq(p.bytes, 5, e - 1))
  <2>1. t.to - 1 = f + e - 1 - 1
    BY <1>4
  <2>2. SubSeq(seen, f + 4, t.to - 1) = SubSeq(p.bytes, 5, e - 1)
    BY <1>6, <2>1, Zenon
  <2>. QED
    BY <2>2, Zenon DEF Reported
<1>. QED
  BY <1>1, <1>8, <1>9, Zenon DEF f

(* When no whole sequence ends after the last announcement, the directory  *)
(* is that of one with its end, and there is no other with its end.        *)
LEMMA PathFollows ==
  ASSUME TypeOK, CwdTrue, ToldInv
  PROVE  PathTrue
<1>. SUFFICES ASSUME NEW k \in DOMAIN told,
                     told[k].to <= Len(seen), Clean(told[k].from),
                     Complete(told[k].from, told[k].to),
                     ~ \E i, j \in DOMAIN seen : Complete(i, j) /\ j > told[k].to
              PROVE  cwd = told[k].path
  BY Zenon DEF PathTrue
<1>. DEFINE i == told[k].from
            j == told[k].to
<1>1. DOMAIN seen = 1..Len(seen) /\ Len(seen) \in Nat /\ DOMAIN told = 1..Len(told)
  BY LenProperties DEF TypeOK, ToldInv
<1>2. i \in DOMAIN seen /\ j \in DOMAIN seen
  BY <1>1, Zenon DEF Complete
<1>3. PICK i2, j2 \in DOMAIN seen :
        Complete(i2, j2) /\ j <= j2 /\ cwd = Reported(i2, j2)
  BY <1>2, Zenon DEF CwdTrue
<1>4. ~(j2 > j)
  BY <1>3, Zenon
<1>. HIDE DEF i, j
<1>5. j2 = j /\ (i <= i2 \/ i2 <= i)
  BY <1>1, <1>2, <1>3, <1>4
<1>6. i2 = i
  BY <1>3, <1>5, OneBegin, Zenon DEF i, j
<1>7. Stands(Output, told[k])
  BY <1>1, Zenon DEF ToldInv
<1>8. Reported(i, j) = told[k].path
  BY <1>7, StandsReported, Zenon DEF i, j
<1>. QED
  BY <1>3, <1>5, <1>6, <1>8, Zenon

(* The directory announced last is the one that is known: PathTrue of Osc7,*)
(* for every limit, and every way to write a path as a url.                *)
THEOREM Announced == Spec => []PathTrue
<1>1. Init => ToldInv
  <2>. SUFFICES ASSUME Init PROVE ToldInv
    OBVIOUS
  <2>1. told = <<>> /\ Len(<<>>) = 0
    BY DEF Init
  <2>. QED
    BY <2>1, EmptySeq DEF ToldInv
<1>2. TypeOK /\ TypeOK' /\ ToldInv /\ [Next]_vars => ToldInv'
  <2>1. CASE UNCHANGED vars
    <3>1. told' = told /\ seen' = seen /\ input' = input
      BY <2>1 DEF vars
    <3>. QED
      BY <3>1, Zenon DEF ToldInv, Output
  <2>. QED
    BY <2>1, ToldStep
<1>3. TypeOK /\ CwdTrue /\ ToldInv => PathTrue
  BY PathFollows
<1>. QED
  BY <1>1, <1>2, <1>3, Typed, Correct, PTL DEF Spec
=============================================================================
