------------------------------ MODULE CacheDir -------------------------------
(***************************************************************************)
(* The cache directory: for each session its published blob                *)
(* <session>__<sig>.bin and the scratch file <blob>.save the backend       *)
(* writes.  Sidecars travel with their file and are not told apart here.   *)
(***************************************************************************)
EXTENDS ProxyTypes

VARIABLES blob, scratch

dirVars == <<blob, scratch>>

DirTypeOK == /\ blob \in [Sessions -> Files]
             /\ scratch \in [Sessions -> Files]

DirInit == /\ blob = [s \in Sessions |-> None]
           /\ scratch = [s \in Sessions |-> None]

\* What Path::exists answers at the matcher.
Exists(s) == blob[s] # None

\* A file the backend can load: present and complete.
Loadable(s) == blob[s] \notin {None, Torn}

\* llama.cpp opens the scratch file for writing ...
OpenScratch(s) ==
    /\ scratch' = [scratch EXCEPT ![s] = Torn]
    /\ UNCHANGED blob

\* ... and closes it complete.  It writes through its open file: were the
\* scratch renamed meanwhile, it is the renamed file that is completed.
CloseScratch(s, c) ==
    /\ scratch' = [scratch EXCEPT ![s] = IF @ = Torn THEN c ELSE @]
    /\ blob' = [blob EXCEPT ![s] =
                   IF @ = Torn /\ scratch[s] # Torn THEN c ELSE @]

\* Open, fsync and rename: fails when there is no scratch file.
CanRename(s) == scratch[s] # None
RenameScratch(s) ==
    /\ CanRename(s)
    /\ blob' = [blob EXCEPT ![s] = scratch[s]]
    /\ scratch' = [scratch EXCEPT ![s] = None]

\* The directory's files, named by kind and session.
Present == {f \in {"blob", "scratch"} \X Sessions :
               (IF f[1] = "blob" THEN blob ELSE scratch)[f[2]] # None}

Remove(files) ==
    /\ blob' = [s \in Sessions |->
                   IF <<"blob", s>> \in files THEN None ELSE blob[s]]
    /\ scratch' = [s \in Sessions |->
                   IF <<"scratch", s>> \in files THEN None ELSE scratch[s]]
=============================================================================
