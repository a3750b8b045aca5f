----------------------------- MODULE Dictionary -----------------------------
(***************************************************************************)
(* What a Trie promises (docs_src/operators/trie.rst): a dictionary that   *)
(* can be changed until it is frozen, that freezing leaves as it is, and   *)
(* that comes back frozen from the file it was saved to.                   *)
(*                                                                         *)
(* A load of a file that is not there loses it.  One that could still be   *)
(* changed can be fetched after that; one that was frozen is broken, and   *)
(* so is a lost one that is asked: all there is left is to begin anew.     *)
(***************************************************************************)
CONSTANTS Keys, Numbers, NoNumber, Lost, Broken

VARIABLES content, writable, stored

vars == <<content, writable, stored>>

Empty == [k \in Keys |-> NoNumber]

Init == content = Empty /\ writable = TRUE /\ stored = Lost

Put(k, n) ==
  /\ writable
  /\ content' = [content EXCEPT ![k] = n]
  /\ UNCHANGED <<writable, stored>>

Remove(k) ==
  /\ writable
  /\ content' = [content EXCEPT ![k] = NoNumber]
  /\ UNCHANGED <<writable, stored>>

Freeze == writable' = FALSE /\ UNCHANGED <<content, stored>>

Store == content \notin {Lost, Broken} /\ stored' = content /\ UNCHANGED <<content, writable>>

Fetch ==
  /\ stored # Lost /\ content # Broken
  /\ content' = stored
  /\ writable' = FALSE
  /\ UNCHANGED stored

Lose ==
  /\ content # Broken
  /\ content' = IF writable \/ content = Lost THEN Lost ELSE Broken
  /\ writable' = FALSE
  /\ UNCHANGED stored

(* It is asked, or saved, when it is lost.                                 *)
Break ==
  /\ content \in {Lost, Broken}
  /\ content' = Broken
  /\ stored' \in {stored, Lost}
  /\ UNCHANGED writable

Renew == content = Broken /\ content' = Empty /\ writable' = TRUE /\ stored' = Lost

Next ==
  \/ \E k \in Keys : Remove(k) \/ \E n \in Numbers : Put(k, n)
  \/ Freeze \/ Store \/ Fetch \/ Lose \/ Break \/ Renew

Spec == Init /\ [][Next]_vars
=============================================================================
