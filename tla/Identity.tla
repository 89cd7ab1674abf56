------------------------------ MODULE Identity ------------------------------
(***************************************************************************)
(* host.LoadOrCreateIdentity: the key file of a data directory, and the    *)
(* processes that load it or create it, any of which may crash between two *)
(* system calls.  A key is known by its value; a file that holds less than *)
(* a whole key is torn, and the library refuses to unmarshal it.           *)
(***************************************************************************)
CONSTANTS
    Procs,   \* processes that use the data directory
    Keys     \* bound: the keys GenerateEd25519Key can return

ASSUME IdentityAssumption == Keys \cap {"nil", "absent", "torn"} = {}

VARIABLES
    pc,        \* where each process is in the call
    identity,  \* s.identity, which outlives the call but not the process
    priv,      \* the key it has generated and not returned yet
    file,      \* what is on disk
    drawn,     \* history: the keys generated so far
    saved,     \* history: the keys that have been on disk
    ran,       \* history: the keys some call has returned
    overlap    \* history: two processes were inside the call at once

memory == <<pc, identity, priv>>
history == <<drawn, saved, ran, overlap>>
vars == <<memory, file, history>>

Inside == {"read", "generate", "open", "write"}

TypeOK ==
    /\ pc \in [Procs -> {"out", "loaded", "failed"} \cup Inside]
    /\ identity \in [Procs -> Keys \cup {"nil"}]
    /\ priv \in [Procs -> Keys \cup {"nil"}]
    /\ \A p \in Procs : priv[p] # "nil" <=> pc[p] \in {"open", "write"}
    /\ \A p \in Procs : pc[p] = "loaded" => identity[p] # "nil"
    /\ file \in Keys \cup {"absent", "torn"}
    /\ drawn \subseteq Keys /\ saved \subseteq drawn /\ ran \subseteq drawn
    /\ overlap \in BOOLEAN

Init ==
    /\ pc = [p \in Procs |-> "out"]
    /\ identity = [p \in Procs |-> "nil"]
    /\ priv = [p \in Procs |-> "nil"]
    /\ file = "absent"
    /\ drawn = {} /\ saved = {} /\ ran = {} /\ overlap = FALSE

Goto(p, from, to) == pc[p] = from /\ pc' = [pc EXCEPT ![p] = to]

\* Start reads the file only while s.identity is nil.
Begin(p) ==
    /\ pc[p] \notin Inside
    /\ pc' = [pc EXCEPT ![p] = IF identity[p] = "nil" THEN "read" ELSE "loaded"]
    /\ overlap' = (overlap \/ \E q \in Procs \ {p} : pc[q] \in Inside)
    /\ UNCHANGED <<identity, priv, file, drawn, saved, ran>>

Returned(p, key) ==
    /\ identity' = [identity EXCEPT ![p] = key]
    /\ priv' = [priv EXCEPT ![p] = "nil"]
    /\ ran' = ran \cup {key}

Fail(p, from) ==
    /\ Goto(p, from, "failed")
    /\ priv' = [priv EXCEPT ![p] = "nil"]
    /\ UNCHANGED <<identity, file, history>>

Load(p) ==
    /\ file \in Keys
    /\ Goto(p, "read", "loaded")
    /\ Returned(p, file)
    /\ UNCHANGED <<file, drawn, saved, overlap>>

\* A bug: any error of ReadFile or Unmarshal is taken for a missing file.
LoadFailsOver(p) ==
    /\ Goto(p, "read", "generate")
    /\ UNCHANGED <<identity, priv, file, history>>

\* ReadFile fails for another reason than a missing file, or Unmarshal refuses.
LoadFails(p) == Fail(p, "read")

NotExist(p) ==
    /\ file = "absent"
    /\ Goto(p, "read", "generate")
    /\ UNCHANGED <<identity, priv, file, history>>

Generate(p) ==
    \E key \in Keys \ drawn :
        /\ Goto(p, "generate", "open")
        /\ priv' = [priv EXCEPT ![p] = key]
        /\ drawn' = drawn \cup {key}
        /\ UNCHANGED <<identity, file, saved, ran, overlap>>

\* GenerateEd25519Key or MkdirAll fails.
GenerateFails(p) == Fail(p, "generate")

\* os.WriteFile opens the file, creating or truncating it ...
WriteFileOpens(p) ==
    /\ Goto(p, "open", "write")
    /\ file' = "torn"
    /\ UNCHANGED <<identity, priv, history>>

\* ... and writes the key.
WriteFileWrites(p) ==
    /\ Goto(p, "write", "loaded")
    /\ file' = priv[p] /\ saved' = saved \cup {priv[p]}
    /\ Returned(p, priv[p])
    /\ UNCHANGED <<drawn, overlap>>

\* A bug: the error of WriteFile is only logged.
WriteFileUnchecked(p) ==
    \E from \in {"open", "write"} :
        /\ Goto(p, from, "loaded")
        /\ Returned(p, priv[p])
        /\ UNCHANGED <<file, drawn, saved, overlap>>

\* What an unfinished write leaves behind stays on disk.
WriteFileFails(p) == \E from \in {"open", "write"} : Fail(p, from)

\* The process ends, at any point; only the file is left.
Exit(p) ==
    /\ pc[p] # "out" /\ pc' = [pc EXCEPT ![p] = "out"]
    /\ identity' = [identity EXCEPT ![p] = "nil"]
    /\ priv' = [priv EXCEPT ![p] = "nil"]
    /\ UNCHANGED <<file, history>>

\* A step inside LoadOrCreateIdentity.
Step(p) ==
    \/ Load(p) \/ LoadFails(p) \/ NotExist(p)
    \/ Generate(p) \/ GenerateFails(p)
    \/ WriteFileOpens(p) \/ WriteFileWrites(p) \/ WriteFileFails(p)

Next == \E p \in Procs : Begin(p) \/ Step(p) \/ Exit(p)

Spec == Init /\ [][Next]_vars

----------------------------------------------------------------------------
(* Properties *)

(* "To maintain the same identity across restarts" a persistent file is        *)
(* enough: as long as no two calls overlap, all the keys ever returned, before *)
(* and after any crash, failed write and unreadable file, are one key, and     *)
(* that key is on disk.                                                        *)
IdentityKept ==
    (~ overlap /\ ran # {}) => ran = {file}

(* No process runs with a key that was never on disk, however many create the  *)
(* file at once: the key is returned only after WriteFile succeeded.           *)
RanWasSaved == ran \subseteq saved
=============================================================================
