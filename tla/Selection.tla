----------------------------- MODULE Selection ------------------------------
(***************************************************************************)
(* The proxy that is selected in a selector: chosen with PUT /proxies,     *)
(* kept in the cache file, carried over to the group that a reload makes   *)
(* under the same name, and to the next process.  A handler finds the      *)
(* group first and works on that one, whatever a reload puts in its place. *)
(***************************************************************************)
EXTENDS Integers, Sequences, FiniteSets

CONSTANTS
  Clients,      \* requests that select
  Lists,        \* lists that the provider of the group may offer, not empty
  Names,        \* all names in them
  MaxReloads,   \* bound on configurations, restarts and new lists
  Nil

VARIABLE sl

Default == "COMPATIBLE"

Init ==
  sl = [groups |-> <<[selected |-> Default]>>,  \* the groups made so far, the last is in force
        list |-> CHOOSE l \in Lists : TRUE,
        store |-> TRUE,                         \* profile.StoreSelected
        file |-> Nil,                           \* the cache file: selected of the group
        reload |-> "idle",
        client |-> [c \in Clients |-> [pc |-> "idle"]],
        left |-> Clients, reloads |-> 0,
        mixed |-> FALSE,                        \* a request met a reload, or another request
        last |-> Nil]                           \* the last choice made while choices are kept

Now == sl.groups[Len(sl.groups)]
Busy == {c \in Clients : sl.client[c].pc # "idle"}

\* Selector.selectedProxy
SelectedProxy(g) ==
  IF \E i \in DOMAIN sl.list : sl.list[i] = g.selected THEN g.selected ELSE sl.list[1]

\* findProxyByName
FindProxy(c, n) ==
  /\ sl.client[c].pc = "idle" /\ c \in sl.left
  /\ sl' = [sl EXCEPT !.left = @ \ {c}, !.client[c] = [pc |-> "set", group |-> Len(sl.groups), name |-> n],
                      !.mixed = @ \/ Busy # {} \/ sl.reload # "idle"]

\* Selector.Set: a name of the list, or an error
Set(c) ==
  /\ sl.client[c].pc = "set"
  /\ LET q == sl.client[c]
     IN  IF \E i \in DOMAIN sl.list : sl.list[i] = q.name
         THEN sl' = [sl EXCEPT !.groups[q.group].selected = q.name, !.client[c].pc = "save",
                              !.last = IF sl.store THEN q.name ELSE @]
         ELSE sl' = [sl EXCEPT !.client[c] = [pc |-> "idle"]]

\* CacheFile.SetSelected, and the answer
SetSelected(c) ==
  /\ sl.client[c].pc = "save"
  /\ sl' = [sl EXCEPT !.file = IF sl.store THEN sl.client[c].name ELSE @, !.client[c] = [pc |-> "idle"]]

-----------------------------------------------------------------------------

\* The provider of the group has another list.
NewList(l) ==
  /\ sl.reloads < MaxReloads /\ l # sl.list
  /\ sl' = [sl EXCEPT !.reloads = @ + 1, !.list = l]

\* ApplyConfig makes new groups (updateProxies) ...
UpdateProxies ==
  /\ sl.reload = "idle" /\ sl.reloads < MaxReloads
  /\ sl' = [sl EXCEPT !.reloads = @ + 1, !.reload = "profile", !.groups = Append(@, [selected |-> Default]),
                      !.mixed = @ \/ Busy # {}]

\* Mutant: the stored names are not carried over.
UpdateProfileNever(store) ==
  /\ sl.reload = "profile"
  /\ sl' = [sl EXCEPT !.reload = "idle", !.store = store]

\* ... and gives them the stored selections, in their list or not
\* (updateProfile, patchSelectGroup, CacheFile.SelectedMap, ForceSet).
UpdateProfile(store) ==
  /\ sl.reload = "profile"
  /\ sl' = [sl EXCEPT !.reload = "idle", !.store = store,
                      !.groups[Len(sl.groups)].selected = IF store /\ sl.file # Nil THEN sl.file ELSE @]

\* The process ends and starts again, which applies the configuration;
\* initCache removes a cache file that is damaged.
StartAgain(damaged) ==
  /\ sl.reloads < MaxReloads
  /\ sl' = [sl EXCEPT !.reloads = @ + 1, !.groups = <<[selected |-> Default]>>, !.reload = "profile",
                      !.client = [c \in Clients |-> [pc |-> "idle"]],
                      !.mixed = @ \/ Busy # {},
                      !.file = IF damaged THEN Nil ELSE @,
                      !.last = IF damaged THEN Nil ELSE @]

Next ==
  \/ \E c \in Clients : (\E n \in Names : FindProxy(c, n)) \/ Set(c) \/ SetSelected(c)
  \/ (\E l \in Lists : NewList(l)) \/ UpdateProxies
  \/ \E b \in BOOLEAN : UpdateProfile(b) \/ StartAgain(b)

-----------------------------------------------------------------------------

\* The choice that was made last while choices are kept stays made, over
\* reloads, restarts and times when they are not: the group uses it whenever
\* its list has it.  (Requests that overlap each other or a reload may leave
\* the file and the group apart.)
ChoiceIsKept ==
  Busy = {} /\ sl.reload = "idle" /\ ~sl.mixed /\ sl.store /\ sl.last # Nil => Now.selected = sl.last

\* Only names that the list had when they were chosen are selected or stored.
NoUnknownSelected ==
  LET offered == UNION {{l[i] : i \in DOMAIN l} : l \in Lists}
  IN  {sl.file, Now.selected} \subseteq offered \cup {Default, Nil}
=============================================================================
