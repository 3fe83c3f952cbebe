-------------------------------- MODULE Tty --------------------------------
(***************************************************************************)
(* What a terminal promises to those who read() it: what is typed can be   *)
(* edited until the line ends, then each character goes to one read(), in  *)
(* order, and a read() ends with its line.  An end-of-file ends a read()   *)
(* that has something and makes the next one empty.                        *)
(***************************************************************************)
EXTENDS Naturals, Sequences, SequencesExt

CONSTANTS Readers, Plain, SIZE

VARIABLES
  line,    \* what is being edited
  ready,   \* what may be read
  got      \* what the read() of each reader has

Init == line = <<>> /\ ready = <<>> /\ got = [p \in Readers |-> <<>>]

Ends(c) == c \in {"newline", "eof"}

Type ==
  /\ Len(ready) + Len(line) < SIZE
  /\ \E c \in Plain \union {"newline", "eof"} :
       LET new == Append(line, c) IN
         IF Ends(c) \/ Len(ready) + Len(new) = SIZE
         THEN ready' = ready \o new /\ line' = <<>>
         ELSE line' = new /\ UNCHANGED ready
  /\ UNCHANGED got

Erase == line # <<>> /\ line' = Front(line) /\ UNCHANGED <<ready, got>>
Kill  == line' = <<>> /\ UNCHANGED <<ready, got>>

(* A piece of a line, perhaps with its end.                                *)
Piece(s) == \A i \in DOMAIN s : s[i] # "eof" /\ (s[i] = "newline" => i = Len(s))

Read(p) ==
  /\ \E k \in 0 .. Len(ready) :
       /\ got' = [got EXCEPT ![p] = @ \o SubSeq(ready, 1, k)]
       /\ ready' = SubSeq(ready, k + 1, Len(ready))
  /\ Piece(got'[p])
  /\ UNCHANGED line

(* The end-of-file is taken by a read() that returns nothing.              *)
ReadEof(p) ==
  /\ ready # <<>> /\ Head(ready) = "eof" /\ got[p] = <<>>
  /\ ready' = Tail(ready)
  /\ UNCHANGED <<line, got>>

(* A read() to a bad address loses a character.                            *)
Fault(p) ==
  /\ \E k \in 1 .. Len(ready) :
       /\ got' = [got EXCEPT ![p] = @ \o SubSeq(ready, 1, k - 1)]
       /\ ready' = SubSeq(ready, k + 1, Len(ready))
       /\ Piece(got'[p]) /\ ready[k] # "eof"
  /\ UNCHANGED line

Begin(p) == got' = [got EXCEPT ![p] = <<>>] /\ UNCHANGED <<line, ready>>

Next ==
  \/ Kill \/ Erase \/ Type
  \/ \E p \in Readers : Read(p) \/ ReadEof(p) \/ Fault(p) \/ Begin(p)

TtySpec == Init /\ [][Next]_<<line, ready, got>>
=============================================================================
