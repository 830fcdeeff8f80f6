------------------------------ MODULE KeyStore ------------------------------
(***************************************************************************)
(* load_or_create_private_key (src/nanda_core/keystore.py) as the index    *)
(* uses it for its resolver key: every process that imports index.app (the *)
(* server, started again after a crash, a second server, the test suite)   *)
(* looks for the key file under shared/, reads it, or creates it.  The     *)
(* file is created, and truncated, before the key is written to it.        *)
(*                                                                         *)
(* A process that has its key serves with it until it ends.  The power     *)
(* does not fail: what is written is on disk.                              *)
(***************************************************************************)
EXTENDS Naturals

CONSTANTS
    Processes,
    Absent,     \* no file
    Empty,      \* a file without a key in it
    NoKey,
    MaxKeys     \* bound: keys generated

Keys == 1..MaxKeys

ASSUME MaxKeysAssumption == MaxKeys \in Nat
ASSUME FilesAssumption == /\ Absent # Empty
                          /\ {Absent, Empty, NoKey} \cap Keys = {}

VARIABLES
    file,       \* the key file
    pc,         \* pc[p]: where the process is, "off" when it does not run
    key,        \* key[p]: the key it generated or read
    generated,  \* keys generated so far
    pinned,     \* history: the keys some process has served with
    raced,      \* history: a process opened the file while another was creating it
    torn        \* history: a process ended between creating the file and writing

vars == <<file, pc, key, generated, pinned, raced, torn>>

Creating == {"create", "write"}

Launch(p) ==
    /\ pc[p] = "off"
    /\ pc' = [pc EXCEPT ![p] = "look"]
    /\ UNCHANGED <<file, key, generated, pinned, raced, torn>>

(* Mutant: the file is not looked for. *)
Look_Creates(p) ==
    /\ pc[p] = "look"
    /\ pc' = [pc EXCEPT ![p] = "create"]
    /\ UNCHANGED <<file, key, generated, pinned, raced, torn>>

(* os.path.exists; a process that looks while another creates races it. *)
Look(p) ==
    /\ pc[p] = "look"
    /\ pc' = [pc EXCEPT ![p] = IF file = Absent THEN "create" ELSE "read"]
    /\ raced' = (raced \/ \E q \in Processes \ {p} : pc[q] \in Creating)
    /\ UNCHANGED <<file, key, generated, pinned, torn>>

(* Mutant: what is in the file is taken for a key. *)
Read_Unchecked(p) ==
    /\ pc[p] = "read"
    /\ key' = [key EXCEPT ![p] = file]
    /\ pinned' = pinned \cup {file}
    /\ pc' = [pc EXCEPT ![p] = "serving"]
    /\ UNCHANGED <<file, generated, raced, torn>>

(* An empty file is no private key: from_private_bytes raises ValueError, *)
(* and the import of the index fails.                                     *)
Read(p) ==
    /\ pc[p] = "read"
    /\ \/ /\ file = Empty
          /\ pc' = [pc EXCEPT ![p] = "failed"]
          /\ UNCHANGED <<key, pinned>>
       \/ /\ file # Empty
          /\ key' = [key EXCEPT ![p] = file]
          /\ pinned' = pinned \cup {file}
          /\ pc' = [pc EXCEPT ![p] = "serving"]
    /\ UNCHANGED <<file, generated, raced, torn>>

(* A new key is generated, the file created or truncated. *)
Create(p) ==
    /\ pc[p] = "create"
    /\ generated < MaxKeys
    /\ generated' = generated + 1
    /\ key' = [key EXCEPT ![p] = generated + 1]
    /\ file' = Empty
    /\ pc' = [pc EXCEPT ![p] = "write"]
    /\ UNCHANGED <<pinned, raced, torn>>

(* Mutant: the key is used and never written. *)
Write_Forgets(p) ==
    /\ pc[p] = "write"
    /\ pinned' = pinned \cup {key[p]}
    /\ pc' = [pc EXCEPT ![p] = "serving"]
    /\ UNCHANGED <<file, key, generated, raced, torn>>

(* The key is written, the file closed, and the process serves. *)
Write(p) ==
    /\ pc[p] = "write"
    /\ file' = key[p]
    /\ pinned' = pinned \cup {key[p]}
    /\ pc' = [pc EXCEPT ![p] = "serving"]
    /\ UNCHANGED <<key, generated, raced, torn>>

(* The process ends: stopped, crashed, or because its import failed. *)
End(p) ==
    /\ pc[p] # "off"
    /\ torn' = (torn \/ pc[p] = "write")
    /\ pc' = [pc EXCEPT ![p] = "off"]
    /\ key' = [key EXCEPT ![p] = NoKey]
    /\ UNCHANGED <<file, generated, pinned, raced>>

Init ==
    /\ file = Absent
    /\ pc = [p \in Processes |-> "off"]
    /\ key = [p \in Processes |-> NoKey]
    /\ generated = 0
    /\ pinned = {}
    /\ raced = FALSE /\ torn = FALSE

Next == \E p \in Processes :
            Launch(p) \/ Look(p) \/ Read(p) \/ Create(p) \/ Write(p) \/ End(p)

Spec == Init /\ [][Next]_vars
-----------------------------------------------------------------------------
(* A process has a key exactly when it is about to write one or serves, *)
(* and a file that was found stays there.                               *)
TypeOK ==
    /\ file \in Keys \cup {Absent, Empty}
    /\ pc \in [Processes -> {"off", "look", "read", "create", "write", "serving", "failed"}]
    /\ key \in [Processes -> Keys \cup {NoKey}]
    /\ \A p \in Processes :
          /\ key[p] # NoKey <=> pc[p] \in {"write", "serving"}
          /\ pc[p] = "read" => file # Absent
    /\ generated \in 0..MaxKeys
    /\ pinned \subseteq Keys
    /\ raced \in BOOLEAN /\ torn \in BOOLEAN

(* Unless two processes raced to create the file, the one identity a client *)
(* can have pinned is the one on disk, so every later process serves with   *)
(* it too ("Stable resolver identity, persisted under shared/ so it         *)
(* survives restarts", index/app.py:30).                                    *)
IdentityIsStable == ~ raced => pinned \subseteq {file}

(* A start fails only if a process ended between creating the file and      *)
(* writing it, or raced another one: a good file is never taken for a bad   *)
(* one, nor destroyed by a later start.                                     *)
FailsOnlyForCause ==
    \A p \in Processes : pc[p] = "failed" => raced \/ torn
=============================================================================
