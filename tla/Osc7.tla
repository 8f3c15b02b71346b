--------------------------------- MODULE Osc7 ---------------------------------
(***************************************************************************)
(* The working directory: the scanner that reads  ESC ] 7 ; url (BEL|ESC)  *)
(* out of the shell's output a byte at a time, what it makes of the url,   *)
(* and the two calls with which the control fetches the result while the   *)
(* pump goes on.  Chunks of output may end anywhere, so one step takes one *)
(* byte.  Output is ASCII, on which from_utf8_lossy changes nothing.       *)
(***************************************************************************)
EXTENDS Integers, Sequences

CONSTANTS
  Cap,        \* the longest url that is kept (4096 in the code)
  Pieces,     \* what the shell writes at a time: the bytes, and, if they are
              \* an announcement, its directory and the place of its end
  MaxPieces   \* bound: pieces written

Byte == 0..127

ASSUME Osc7Assumption ==
  /\ Cap \in Nat /\ MaxPieces \in Nat
  /\ Pieces \subseteq [bytes : Seq(Byte), end : Nat, path : Seq(Byte)]

VARIABLES
  written,  \* pieces written so far
  input,    \* bytes in the pipe
  seen,     \* history: the bytes scanned
  told,     \* history: where the announcements stand in seen, and their paths
  st, buf,  \* osc7_state, osc7_buf
  cwd,      \* current_cwd
  asked,    \* length the control was told, -1 when it is not reading
  quiet,    \* history: no report since it asked
  got       \* history: what the last read returned, of what, and quiet

vars == <<written, input, seen, told, st, buf, cwd, asked, quiet, got>>
scanVars == <<input, seen, st, buf, cwd>>
readVars == <<asked, quiet, got>>

BEL == 7
ESC == 27
Ends == {BEL, ESC}
Intro == <<ESC, 93, 55, 59>>              \* ESC ] 7 ;

TypeOK ==
  /\ written \in 0..MaxPieces
  /\ input \in Seq(Byte) /\ seen \in Seq(Byte)
  /\ st \in 0..4 /\ buf \in Seq(Byte \ Ends) /\ Len(buf) <= Cap
  /\ st # 4 => buf = <<>>
  /\ quiet \in BOOLEAN

Init ==
  /\ written = 0 /\ input = <<>> /\ seen = <<>> /\ told = <<>>
  /\ st = 0 /\ buf = <<>> /\ cwd = <<>>
  /\ asked = -1 /\ quiet = TRUE
  /\ got = [text |-> <<>>, of |-> <<>>, cap |-> 1, quiet |-> TRUE]

-----------------------------------------------------------------------------
(* What becomes of a url.                                                  *)

HexDigit(b) == IF b \in 48..57 THEN b - 48
               ELSE IF b \in 65..70 THEN b - 55
               ELSE IF b \in 97..102 THEN b - 87 ELSE -1

IsEscape(s, i) == /\ s[i] = 37 /\ i + 2 <= Len(s)
                  /\ HexDigit(s[i+1]) >= 0 /\ HexDigit(s[i+2]) >= 0

(* Mutant: an escape at the very end is left as it is.                     *)
PercentDecode_Short(s) ==
  LET From[i \in 1..Len(s)+1] ==
        IF i > Len(s) THEN <<>>
        ELSE IF i + 2 < Len(s) /\ IsEscape(s, i)
             THEN <<16 * HexDigit(s[i+1]) + HexDigit(s[i+2])>> \o From[i+3]
             ELSE <<s[i]>> \o From[i+1]
  IN From[1]

(* percent_decode: what is no escape stays as it is.                       *)
PercentDecode(s) ==
  LET From[i \in 1..Len(s)+1] ==
        IF i > Len(s) THEN <<>>
        ELSE IF IsEscape(s, i)
             THEN <<16 * HexDigit(s[i+1]) + HexDigit(s[i+2])>> \o From[i+3]
             ELSE <<s[i]>> \o From[i+1]
  IN From[1]

FileScheme == <<102, 105, 108, 101, 58, 47, 47>>    \* file://
Slash == 47

StartsWith(s, p) == Len(p) <= Len(s) /\ SubSeq(s, 1, Len(p)) = p
After(s, n) == SubSeq(s, n + 1, Len(s))

(* Without the scheme, and without what stands before the first slash.     *)
PathPart(url) ==
  IF ~StartsWith(url, FileScheme) THEN url
  ELSE LET rest    == After(url, Len(FileScheme))
           slashes == {i \in DOMAIN rest : rest[i] = Slash}
       IN  IF slashes = {} THEN rest
           ELSE After(rest, (CHOOSE i \in slashes :
                               \A j \in slashes : i <= j) - 1)

(* /C:/x is C:/x.                                                          *)
WithoutSlash(p) ==
  IF Len(p) >= 3 /\ p[1] = Slash /\ p[3] = 58 THEN After(p, 1) ELSE p

PathOf(url) == WithoutSlash(PercentDecode(PathPart(url)))

(* What a shell means by a url (of the code above, the digits only): c[k]  *)
(* is where the k-th byte of q begins in u, as itself or as an escape.     *)
Encodes(u, q) ==
  \E c \in [1..Len(q)+1 -> 1..Len(u)+1] :
    /\ c[1] = 1 /\ c[Len(q)+1] = Len(u) + 1
    /\ \A k \in 1..Len(q) :
         \/ c[k+1] = c[k] + 1 /\ u[c[k]] = q[k] /\ q[k] # 37
         \/ /\ c[k+1] = c[k] + 3 /\ IsEscape(u, c[k])
            /\ q[k] = 16 * HexDigit(u[c[k]+1]) + HexDigit(u[c[k]+2])

(* A url says a path: bare, or after the scheme and a host without a slash;*)
(* a path that begins with a drive has a slash before it there.            *)
Says(url, path) ==
  \E q \in {path, <<Slash>> \o path} :
    /\ IF q = path THEN ~ (Len(q) >= 3 /\ q[1] = Slash /\ q[3] = 58)
                   ELSE Len(q) >= 3 /\ q[3] = 58
    /\ \/ ~StartsWith(url, FileScheme) /\ Encodes(url, q)
       \/ /\ StartsWith(url, FileScheme)
          /\ \E h \in Len(FileScheme) .. Len(url)-1 :
               /\ url[h+1] = Slash
               /\ \A i \in Len(FileScheme)+1 .. h : url[i] # Slash
               /\ Encodes(After(url, h), q)

(* What a piece is said to announce is what its url says.                  *)
ASSUME PiecesSay ==
  \A p \in Pieces : p.end # 0 =>
    /\ p.end \in Len(Intro)+1 .. Len(p.bytes)
    /\ Says(SubSeq(p.bytes, Len(Intro) + 1, p.end - 1), p.path)

-----------------------------------------------------------------------------
(* The shell writes and the pump scans.                                    *)

(* The next piece is written when the last one is scanned: the scanner does*)
(* not look ahead.                                                         *)
Write(p) ==
  /\ input = <<>> /\ written < MaxPieces
  /\ written' = written + 1 /\ input' = p.bytes
  /\ told' = IF p.end = 0 THEN told
             ELSE Append(told, [from |-> Len(seen) + 1,
                                to |-> Len(seen) + p.end, path |-> p.path])
  /\ UNCHANGED <<seen, st, buf, cwd, readVars>>

(* The places of the introducer; an ESC starts over only at its beginning. *)
StateAfter(b) ==
  IF st < 4 /\ b = Intro[st + 1] THEN st + 1
  ELSE IF st = 1 /\ b = ESC THEN 1
  ELSE 0

(* Mutant: the ESC that ends a url starts nothing.                         *)
StateAtEnd_Zero(b) == 0

(* The ESC that ends a url may start the next sequence.                    *)
StateAtEnd(b) == IF b = ESC THEN 1 ELSE 0

(* Mutant: one byte more than the limit is kept.                           *)
TooLong_Late(n) == n > Cap + 1

TooLong(n) == n > Cap

ScanIntro(b) ==
  /\ st < 4
  /\ st' = StateAfter(b)
  /\ UNCHANGED <<buf, cwd, quiet>>

ScanUrl(b) ==
  /\ st = 4 /\ b \notin Ends
  /\ IF TooLong(Len(buf) + 1)
     THEN st' = 0 /\ buf' = <<>>
     ELSE st' = 4 /\ buf' = Append(buf, b)
  /\ UNCHANGED <<cwd, quiet>>

(* The end of a url, and handle_osc7_url.                                  *)
Report(b) ==
  /\ st = 4 /\ b \in Ends
  /\ st' = StateAtEnd(b) /\ buf' = <<>>
  /\ cwd' = PathOf(buf) /\ quiet' = FALSE

Scan ==
  /\ input # <<>>
  /\ seen' = Append(seen, Head(input)) /\ input' = Tail(input)
  /\ \/ ScanIntro(Head(input))
     \/ ScanUrl(Head(input))
     \/ Report(Head(input))
  /\ UNCHANGED <<written, told, asked, got>>

-----------------------------------------------------------------------------
(* CurrentCwd: two calls of rata_session_get_cwd, the lock of the terminal *)
(* free between them.                                                      *)

AskLength ==
  /\ asked = -1 /\ cwd # <<>>
  /\ asked' = Len(cwd) /\ quiet' = TRUE
  /\ UNCHANGED <<written, told, scanVars, got>>

(* Mutant: the buffer has no room for the final zero.                      *)
BufferFor_NoZero(n) == n

(* SetLength(LBuf, LLen + 1).                                              *)
BufferFor(n) == n + 1

(* min(len, cap - 1).                                                      *)
Copied(n, cap) == IF n < cap - 1 THEN n ELSE cap - 1

Copy ==
  /\ asked >= 0
  /\ LET cap == BufferFor(asked)
     IN got' = [text |-> SubSeq(cwd, 1, Copied(Len(cwd), cap)), of |-> cwd,
                cap |-> cap, quiet |-> quiet]
  /\ asked' = -1
  /\ UNCHANGED <<written, told, scanVars, quiet>>

Next == \/ \E p \in Pieces : Write(p)
        \/ Scan
        \/ AskLength \/ Copy

Spec == Init /\ [][Next]_vars

-----------------------------------------------------------------------------
(* Properties.                                                             *)

(* A whole sequence with a url that is short enough stands at i..j.        *)
Complete(i, j) ==
  /\ i \in 1..Len(seen) /\ j \in 1..Len(seen) /\ i + 4 <= j /\ j - i - 4 <= Cap
  /\ \A k \in 1..4 : seen[i + k - 1] = Intro[k]
  /\ \A k \in i+4 .. j-1 : seen[k] \notin Ends
  /\ seen[j] \in Ends

(* It does not follow directly on the first bytes of another introducer,   *)
(* whose ESC the scanner does not start over with.                         *)
Clean(i) ==
  /\ ~ (i > 2 /\ seen[i-2] = Intro[1] /\ seen[i-1] = Intro[2])
  /\ ~ (i > 3 /\ seen[i-3] = Intro[1] /\ seen[i-2] = Intro[2]
              /\ seen[i-1] = Intro[3])

Reported(i, j) == PathOf(SubSeq(seen, i + 4, j - 1))

(* However the output is cut into chunks and whatever stands between: the  *)
(* directory is one that a whole sequence reported, and no clean sequence  *)
(* is missed (term.rs 131-132, DEVELOPER_GUIDE.md 441).                    *)
CwdTrue ==
  /\ \/ cwd = <<>>
     \/ \E i, j \in DOMAIN seen : Complete(i, j) /\ cwd = Reported(i, j)
  /\ \A i, j \in DOMAIN seen :
       Complete(i, j) /\ Clean(i) =>
         \E i2, j2 \in DOMAIN seen :
           Complete(i2, j2) /\ j <= j2 /\ cwd = Reported(i2, j2)

(* The directory the shell announced last, encoded as a file URL or bare,  *)
(* is the one the control can fetch (SCShell.Ctrl.pas 189).                *)
PathTrue ==
  \A k \in DOMAIN told :
    LET t == told[k]
    IN  ( /\ t.to <= Len(seen) /\ Clean(t.from) /\ Complete(t.from, t.to)
          /\ ~ \E i, j \in DOMAIN seen : Complete(i, j) /\ j > t.to )
        => cwd = t.path

(* What a read returns fits its buffer with the final zero and is the start*)
(* of the directory known at the copy; it is the whole of it when nothing  *)
(* was reported between the calls (ffi.rs 753-773).                        *)
ReadsWhole ==
  /\ Len(got.text) < got.cap
  /\ got.text = SubSeq(got.of, 1, Len(got.text))
  /\ got.quiet => got.text = got.of
=============================================================================
