------------------------------ MODULE Provider ------------------------------
(***************************************************************************)
(* A proxy provider with an HTTP vehicle: the fetcher reads a resource,    *)
(* compares its hash with the last one, parses it, writes it to a file,    *)
(* remembers the hash, and hands the proxies over to the provider and its  *)
(* health check.  At the start Initial prefers the file, and falls back to *)
(* the resource; from then on the pull loop calls Update at every tick,    *)
(* and the REST API calls it at any time.                                  *)
(*                                                                         *)
(* Nothing in it is locked, and the file is truncated and written in       *)
(* place: updates may overlap, and the program may be stopped anywhere.    *)
(***************************************************************************)
EXTENDS Integers, FiniteSets

CONSTANTS
  Contents,     \* contents of the resource that parse
  Bad,          \* a content that does not
  Torn,         \* a part of a content, or a mixture of two
  None,         \* no file, no hash, no proxies
  Initial, Pull,\* the call of Initial, and the pull loop
  Api,          \* the requests that may update the provider
  Versions,     \* how many versions there are: 2^32, version is a uint32
  MaxChanges,   \* bound on the changes of the resource
  MaxErrors,    \* bound on failed reads and writes
  MaxCrashes    \* bound on stops of the program

Procs == {Initial, Pull} \cup Api

VARIABLES
  remote,       \* what a read of the resource returns
  file,         \* the file at vehicle.Path()
  hash,         \* f.hash, as the content it is the hash of
  proxies,      \* pd.proxies, as the content they come from
  checked,      \* hc.proxies, likewise
  version,      \* pd.version
  pulling,      \* the pull loop runs
  pc,           \* where each process is
  buf,          \* what it read
  overlapped,   \* an update has begun while another ran, since the start
  changes, errors, crashes

memory == <<hash, proxies, checked, version, pulling>>
counters == <<changes, errors, crashes>>
local == <<pc, buf, overlapped>>
vars == <<remote, file, memory, local, counters>>

Init ==
  /\ remote \in Contents /\ file = None
  /\ hash = None /\ proxies = None /\ checked = None /\ version = 0
  /\ pulling = FALSE
  /\ pc = [p \in Procs |-> IF p = Initial THEN "start" ELSE "idle"]
  /\ buf = [p \in Procs |-> None] /\ overlapped = FALSE
  /\ changes = 0 /\ errors = 0 /\ crashes = 0

Alone == \A p \in Procs : pc[p] = "idle"

Goto(p, l) == pc' = [pc EXCEPT ![p] = l] /\ UNCHANGED <<buf, overlapped>>

\* A call of a process begins with a content, or ends and forgets it.
Begins(p, content, l) ==
  /\ buf' = [buf EXCEPT ![p] = content]
  /\ pc' = [pc EXCEPT ![p] = l]
Ends(p) ==
  /\ buf' = [buf EXCEPT ![p] = None]
  /\ pc' = [pc EXCEPT ![p] = "idle"]
  /\ UNCHANGED overlapped

Error == errors < MaxErrors /\ errors' = errors + 1

-----------------------------------------------------------------------------
(* The world around the provider *)

RemoteChanges ==
  /\ changes < MaxChanges /\ changes' = changes + 1
  /\ remote' \in (Contents \cup {Bad}) \ {remote}
  /\ UNCHANGED <<file, memory, local, errors, crashes>>

\* The program stops, and starts again with nothing but the file.
Crash ==
  /\ crashes < MaxCrashes /\ crashes' = crashes + 1
  /\ hash' = None /\ proxies' = None /\ checked' = None /\ version' = 0
  /\ pulling' = FALSE
  /\ pc' = [p \in Procs |-> IF p = Initial THEN "start" ELSE "idle"]
  /\ buf' = [p \in Procs |-> None] /\ overlapped' = FALSE
  /\ UNCHANGED <<remote, file, changes, errors>>

-----------------------------------------------------------------------------
(* Fetcher.Initial *)

\* The file is there and parses, as a part of a content may; it is not old, or
\* it is and the resource could not be had.
InitialFromFile ==
  /\ pc[Initial] = "start" /\ file \in Contents \cup {Torn}
  /\ Begins(Initial, file, "hash")
  /\ UNCHANGED <<remote, file, memory, overlapped, counters>>

\* The file is not there, is old, or does not parse.
InitialFromRemote ==
  /\ pc[Initial] = "start" /\ remote \in Contents
  /\ Begins(Initial, remote, "write")
  /\ UNCHANGED <<remote, file, memory, overlapped, counters>>

\* Neither serves: no pull loop is started.
InitialFails ==
  /\ pc[Initial] = "start"
  /\ \/ Error
     \/ file \in {None, Torn} /\ remote = Bad /\ UNCHANGED errors
  /\ Ends(Initial)
  /\ UNCHANGED <<remote, file, memory, changes, crashes>>

-----------------------------------------------------------------------------
(* Fetcher.Update, called by the pull loop and by proxySetProvider.Update *)

MayUpdate(p) ==
  /\ p # Initial /\ pc[p] = "idle"
  /\ p = Pull => pulling

\* buf, err := f.vehicle.Read()
Read(p) ==
  /\ MayUpdate(p)
  /\ Begins(p, remote, "compare")
  /\ overlapped' = (overlapped \/ ~Alone)
  /\ UNCHANGED <<remote, file, memory, counters>>

ReadFails(p) ==
  /\ MayUpdate(p) /\ Error
  /\ UNCHANGED <<remote, file, memory, local, changes, crashes>>

\* Mutant: the hash is remembered before the content has been parsed.
CompareAndSet(p) ==
  /\ pc[p] = "compare"
  /\ IF buf[p] # hash /\ buf[p] \in Contents THEN Goto(p, "write") ELSE Ends(p)
  /\ hash' = buf[p]
  /\ UNCHANGED <<remote, file, proxies, checked, version, pulling, counters>>

\* Mutant: the comparison is the wrong way round.
CompareInverted(p) ==
  /\ pc[p] = "compare"
  /\ IF buf[p] = hash /\ buf[p] \in Contents THEN Goto(p, "write") ELSE Ends(p)
  /\ UNCHANGED <<remote, file, memory, counters>>

\* The content is the last one, or it does not parse, or it is to be written.
Compare(p) ==
  /\ pc[p] = "compare"
  /\ IF buf[p] # hash /\ buf[p] \in Contents THEN Goto(p, "write") ELSE Ends(p)
  /\ UNCHANGED <<remote, file, memory, counters>>

\* os.WriteFile truncates the file ...
WriteBegins(p) ==
  /\ pc[p] = "write"
  /\ file' = Torn
  /\ Goto(p, "writing")
  /\ UNCHANGED <<remote, memory, counters>>

\* ... and writes it; two writes at a time may leave a mixture.
WriteEnds(p) ==
  /\ pc[p] = "writing"
  /\ \/ file' = buf[p]
     \/ file' = Torn /\ (file # Torn \/ \E q \in Procs \ {p} : pc[q] = "writing")
  /\ Goto(p, "hash")
  /\ UNCHANGED <<remote, memory, counters>>

\* The file cannot be opened, or not be written to the end.
WriteFails(p) ==
  /\ pc[p] \in {"write", "writing"} /\ Error
  /\ Ends(p)
  /\ UNCHANGED <<remote, file, memory, changes, crashes>>

\* f.hash = ...; Initial then starts the pull loop.
SetHash(p) ==
  /\ pc[p] = "hash"
  /\ hash' = buf[p]
  /\ pulling' = (pulling \/ p = Initial)
  /\ Goto(p, "proxies")
  /\ UNCHANGED <<remote, file, proxies, checked, version, counters>>

-----------------------------------------------------------------------------
(* OnUpdate: setProxies and the version *)

SetProxies(p) ==
  /\ pc[p] = "proxies"
  /\ proxies' = buf[p]
  /\ Goto(p, "check")
  /\ UNCHANGED <<remote, file, hash, checked, version, pulling, counters>>

\* pp.healthCheck.setProxy(proxies)
SetProxy(p) ==
  /\ pc[p] = "check"
  /\ checked' = buf[p]
  /\ Goto(p, "version")
  /\ UNCHANGED <<remote, file, hash, proxies, version, pulling, counters>>

\* pd.version += 1
BumpVersion(p) ==
  /\ pc[p] = "version"
  /\ version' = (version + 1) % Versions
  /\ Ends(p)
  /\ UNCHANGED <<remote, file, hash, proxies, checked, pulling, counters>>

Updating(p) ==
  \/ Read(p) \/ Compare(p) \/ WriteBegins(p) \/ WriteEnds(p)
  \/ SetHash(p) \/ SetProxies(p) \/ SetProxy(p) \/ BumpVersion(p)

Starting == InitialFromFile \/ InitialFromRemote \/ InitialFails

Next ==
  \/ RemoteChanges \/ Crash \/ Starting
  \/ \E p \in Procs : Updating(p) \/ ReadFails(p) \/ WriteFails(p)

Spec == Init /\ [][Next]_vars

\* The program runs, and the ticker ticks for the pull loop; the requests of
\* the API come or do not.
FairSpec ==
  /\ Spec
  /\ WF_vars(Starting)
  /\ WF_vars(Updating(Initial)) /\ WF_vars(Updating(Pull))
  /\ \A p \in Api : WF_vars(pc[p] # "idle" /\ Updating(p))

-----------------------------------------------------------------------------

\* Between updates that do not overlap, the hash, the proxies in use and the
\* ones the health check tests are of one content, whatever failed before: an
\* update that is skipped as "same" is one that has been applied.
InUseIsHashed == ~overlapped /\ Alone => hash = proxies /\ proxies = checked

\* Between updates that do not overlap, the file is what is in use, so that a
\* restart finds it again, unless a write has failed, a crash cut one short, or
\* nothing could be loaded.
FileIsInUse ==
  ~overlapped /\ Alone => file = proxies \/ file = Torn \/ proxies = None

\* Nothing but a new content replaces the proxies in use: no failed read, parse
\* or write empties a provider, or gives it what the parser has refused.
LastGoodKept ==
  [][proxies' # proxies => proxies' \in Contents \cup {Torn} \/ crashes' # crashes]_vars

\* What is read from the resource at last is in use at last, also where a crash
\* left a part of a content in the file and it was loaded, once a pull loop
\* runs and updates do not overlap.
Converges ==
  \A c \in Contents : <>[](remote = c /\ pulling /\ ~overlapped) => <>[](proxies = c /\ checked = c)

\* The parts of a provider agree between updates: the hash, the proxies in use
\* and those that are tested, and the file.
ProviderIsConsistent == InUseIsHashed /\ FileIsInUse

\* A provider never loses what it has to a failure, and gets what is new at last.
ProviderRecovers == LastGoodKept /\ Converges
=============================================================================
