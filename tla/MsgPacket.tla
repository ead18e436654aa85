------------------------------- MODULE MsgPacket -------------------------------
(***************************************************************************)
(* The text form of cCharactersInfo (MsgPacket/CommonClass.h): the players *)
(* of a session written with << and read back with >>.  The text may end   *)
(* early, and may hold numbers that >> cannot read.                        *)
(*                                                                         *)
(* A value is [of, field, form]: whose field it is, which, and the form of *)
(* the number: "exact", "rounded" to the six digits << prints, "nan" for a *)
(* float that is printed as a word.  "junk" and "zero" stand for an        *)
(* uninitialised field and for what a failed conversion stores.            *)
(***************************************************************************)
EXTENDS Integers, Sequences, FiniteSets, SequencesExt, FiniteSetsExt

CONSTANTS
  Ids,        \* session ids, integers
  Messages,   \* maps from some of Ids to characters
  Cuts        \* how many words of the text may arrive

\* The members in the order << writes them ...
WriteOrder == <<"SessionId", "X", "Y", "Z", "VX", "VY", "VZ", "Yaw", "Pitch",
                "Roll", "IsAlive", "HealthValue", "IsAttacking">>

ReadOrder_as_declared ==
  <<"SessionId", "X", "Y", "Z", "Yaw", "Pitch", "Roll", "VX", "VY", "VZ",
    "IsAlive", "HealthValue", "IsAttacking">>

\* ... and in the order >> reads them.
ReadOrder == <<"SessionId", "X", "Y", "Z", "VX", "VY", "VZ", "Yaw", "Pitch",
               "Roll", "IsAlive", "HealthValue", "IsAttacking">>

Fields == ToSet(WriteOrder)
Floats == Fields \ {"SessionId", "IsAlive", "IsAttacking"}

\* << prints six digits.
Printed(v, f) == IF f \in Floats /\ v.form = "exact"
                 THEN [v EXCEPT !.form = "rounded"] ELSE v

\* operator<< of a character.
Character(c) ==
  [k \in DOMAIN WriteOrder |-> Printed(c[WriteOrder[k]], WriteOrder[k])]

\* operator<< of the players: their number, then each key and character in the
\* order of the keys.
Keys(m) == SetToSortSeq(DOMAIN m, LAMBDA a, b : a < b)
Text(m) ==
  <<Cardinality(DOMAIN m)>> \o
  FlattenSeq([k \in DOMAIN Keys(m) |-> <<Keys(m)[k]>> \o Character(m[Keys(m)[k]])])

VARIABLES
  msg,      \* the players sent
  cut,      \* words that arrive
  words,    \* words not read yet
  failed,   \* the stream's failbit
  players,  \* info.players of the receiver
  left,     \* turns of the loop left, -1 before the loop
  id, player, \* SessionId and Player of operator>>
  line      \* "begin", "id", "player", "end"

vars == <<msg, cut, words, failed, players, left, id, player, line>>

Junk == [of |-> "nobody", field |-> "none", form |-> "junk"]
Zero == [of |-> "nobody", field |-> "none", form |-> "zero"]
Before == [i \in {0} |-> [f \in Fields |-> Junk]]

Init ==
  /\ msg \in Messages /\ cut \in Cuts /\ cut <= Len(Text(msg))
  /\ words = SubSeq(Text(msg), 1, cut)
  /\ failed = FALSE /\ left = -1 /\ id = 0
  /\ players = Before
  /\ player = [f \in Fields |-> Junk]
  /\ line = "begin"

\* stream >> member, on the words, the failbit and the members read so far.
\* A stream that failed, or fails for want of a word, stores nothing.
Extract(s, f) ==
  IF s.failed \/ s.words = <<>> THEN [s EXCEPT !.failed = TRUE]
  ELSE IF Head(s.words).form = "nan"
  THEN [s EXCEPT !.failed = TRUE, !.player[f] = Zero]
  ELSE [s EXCEPT !.player[f] = Head(s.words), !.words = Tail(@)]

\* The receiver's map is cleared and the number of players read.
begin ==
  /\ line = "begin"
  /\ players' = [i \in {} |-> 0]
  /\ IF words = <<>> THEN failed' = TRUE /\ left' = 0 /\ UNCHANGED words
     ELSE left' = Head(words) /\ words' = Tail(words) /\ UNCHANGED failed
  /\ line' = "id"
  /\ UNCHANGED <<msg, cut, id, player>>

read_id ==
  /\ line = "id" /\ left > 0
  /\ IF failed \/ words = <<>> THEN failed' = TRUE /\ UNCHANGED <<id, words>>
     ELSE id' = Head(words) /\ words' = Tail(words) /\ UNCHANGED failed
  /\ line' = "player"
  /\ UNCHANGED <<msg, cut, players, left, player>>

\* operator>> of a character into Player, which the turns of the loop share,
\* and the assignment to the map, failed or not.
read_player ==
  /\ line = "player"
  /\ LET s == FoldLeft(Extract, [words |-> words, failed |-> failed,
                                 player |-> player], ReadOrder)
     IN /\ words' = s.words /\ failed' = s.failed /\ player' = s.player
        /\ players' = [i \in DOMAIN players \cup {id} |->
                         IF i = id THEN s.player ELSE players[i]]
  /\ left' = left - 1
  /\ line' = "id"
  /\ UNCHANGED <<msg, cut, id>>

return ==
  /\ line = "id" /\ left <= 0
  /\ line' = "end"
  /\ UNCHANGED <<msg, cut, words, failed, players, left, id, player>>

Next == begin \/ read_id \/ read_player \/ return

Spec == Init /\ [][Next]_vars

-----------------------------------------------------------------------------
(* Properties.                                                             *)

Sent == [i \in DOMAIN msg |-> [f \in Fields |-> Printed(msg[i][f], f)]]
Readable == /\ cut = Len(Text(msg))
            /\ \A i \in DOMAIN msg, f \in Fields : msg[i][f].form # "nan"

\* A whole message comes out as it went in, up to the digits << prints, and
\* the players of an earlier message are gone; and the caller can tell from
\* the stream, and only from it, that a message was not whole.
RoundTrip ==
  line = "end" => /\ failed <=> ~Readable
                  /\ Readable => players = Sent

\* A message that breaks off spoils at most the player it broke off in: the
\* turns of the loop after the failure, which keep storing the unchanged
\* Player under the unchanged SessionId, do no more damage.
OneSpoiled ==
  line = "end" =>
    Cardinality({i \in DOMAIN players :
                   i \notin DOMAIN msg \/ players[i] # Sent[i]}) <= 1
================================================================================
