---------------------------- MODULE MCIdempotency ---------------------------
EXTENDS Idempotency, TLC

CONSTANTS save, pay, move, key1, key2

(* Two operations under one key, as a faulty client would send them, and one   *)
(* under its own                                                               *)
KeysUsed == save :> key1 @@ pay :> key1 @@ move :> key2
Paths == save :> "save" @@ pay :> "pay" @@ move :> "move"
=============================================================================
