-------------------------------- MODULE MCOsc7 --------------------------------
(***************************************************************************)
(* Pieces of output for Osc7: announcements as shells write them, and what *)
(* may come between.                                                       *)
(***************************************************************************)
EXTENDS Osc7

Piece(url, end, path) == [bytes |-> Intro \o url \o end,
                          end |-> Len(Intro) + Len(url) + 1, path |-> path]
Other(bytes) == [bytes |-> bytes, end |-> 0, path |-> <<>>]

(* "C:/ " as file:///C:/%20, "/a" as file://h/a, "D:" bare, ended by BEL or*)
(* by ESC \; an introducer that is cut off, at its first bytes and in the  *)
(* url; a url that is one byte too long; a title.                          *)
MCPieces ==
  { Piece(FileScheme \o <<47, 67, 58, 47, 37, 50, 48>>, <<BEL>>,
          <<67, 58, 47, 32>>),
    Piece(FileScheme \o <<104, 47, 97>>, <<ESC, 92>>, <<47, 97>>),
    Piece(<<68, 58>>, <<BEL>>, <<68, 58>>),
    Other(<<ESC, 93>>), Other(<<ESC>>), Other(Intro \o <<97>>),
    Other(Intro \o [i \in 1..15 |-> 97] \o <<BEL>>),
    Other(<<ESC, 93, 48, 59, 97, BEL>>) }
=============================================================================
