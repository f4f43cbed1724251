------------------------------- MODULE Loader -------------------------------
(***************************************************************************)
(* Processes that put XDP programs on one interface and take them off:     *)
(* main of xdp_loader.c up to its analysis loop, and callers of the        *)
(* library's load_bpf_and_xdp_attach and xdp_link_detach ("common").  They *)
(* meet in the kernel: in the interface's two XDP slots and in the         *)
(* directory of pinned maps.  A process may be killed at any step; slots   *)
(* and pins outlive it.                                                    *)
(*                                                                         *)
(* Each start of a process is a run with a number of its own, which also   *)
(* names the program and the maps it creates.  A step is one system call   *)
(* on shared state, with the private work that leads to it.  Hardware      *)
(* offload and a second interface are left out.                            *)
(***************************************************************************)
EXTENDS Integers, Sequences, FiniteSets, Params, BpfObject

CONSTANTS
  Procs,        \* processes
  Declared,     \* names of the maps, in the order of xdp_prog_kern.c
  Files,        \* object files that a compiler may produce from it
  Commands,     \* ways to start a process: front end, options, expected id
  MaxRuns,      \* bound: starts
  MaxFaults     \* bound: failing system calls

VARIABLES
  native,       \* whether the driver implements XDP
  file,         \* the object file
  link,         \* program in each slot of the interface, 0 if none
  pinned,       \* map at each path of the pin directory
  filled,       \* tx_port maps that have an entry
  runs,         \* starts so far
  faults,       \* failed system calls so far
  pc, cmd, cfg, run, obj, i, curr_prog_id,  \* of each process
  clean,        \* history: no fault, and no step of another process, since its start
  stuck,        \* history: a rollback could not remove a pin
  removed       \* history: programs that a detach reported as removed

\* The maps have different names, none of them map_name below; the fourth is
\* tx_port.
ASSUME NamesAssumption ==
  /\ Declared \in Seq(STRING)
  /\ 4 \in DOMAIN Declared /\ Declared[4] = "tx_port"
  /\ \A j, k \in DOMAIN Declared : Declared[j] = Declared[k] => j = k
  /\ \A k \in DOMAIN Declared : Declared[k] # "map"

\* What libbpf makes of the object files, checked on its own in MCHelpers: an
\* object with the maps in the order of their declaration and the program.
OpenObject ==
  [maps : Seq([name : STRING, type : STRING, sec_idx : Int, sec_offset : Int, fd : [run : Nat, name : STRING]]),
   reloc : Seq(Int), insns : {<<>>}, titles : Seq(STRING), progs : {<<>>}]

ASSUME FilesAssumption ==
  \A f \in Files : \E o \in {bpf_object__open(f, TRUE, 0)} :
    /\ o \in OpenObject
    /\ DOMAIN o.maps = DOMAIN Declared
    /\ \A k \in DOMAIN Declared : o.maps[k].name = Declared[k] /\ o.maps[k].fd = Closed
    /\ find_program_by_title(o, "xdp_filter") # {}

\* There is a way to start, and none asks for hardware offload.
ASSUME CommandsAssumption ==
  /\ Commands # {}
  /\ \A c \in Commands : parse_user(default_cfg, c.opts).mode \in {"auto", "drv", "skb"}

ASSUME BoundsAssumption == MaxRuns \in Nat /\ MaxFaults \in Nat

fixed == <<native, file>>
kernel == <<link, pinned, filled>>
local == <<cmd, cfg, run, obj, i, curr_prog_id>>
vars == <<fixed, kernel, runs, faults, pc, local, clean, stuck, removed>>

map_name == "map"
Names == {Declared[k] : k \in DOMAIN Declared}
Slots == {"drv", "skb"}
Resting == {"off", "ok", "fail"}

Init ==
  /\ native \in BOOLEAN /\ file \in Files
  /\ link = [s \in Slots |-> 0]
  /\ pinned = [n \in Names |-> Closed]
  /\ filled = {} /\ removed = {} /\ stuck = FALSE /\ runs = 0 /\ faults = 0
  /\ pc = [p \in Procs |-> "off"]
  /\ cmd = [p \in Procs |-> CHOOSE c \in Commands : TRUE]
  /\ cfg = [p \in Procs |-> default_cfg]
  /\ run = [p \in Procs |-> 0]
  /\ obj = [p \in Procs |-> NULL]
  /\ i = [p \in Procs |-> 0]
  /\ curr_prog_id = [p \in Procs |-> 0]
  /\ clean = [p \in Procs |-> FALSE]

(***************************************************************************)
(* The interface.                                                          *)
(***************************************************************************)

\* The slot that a mode means.
Slot(mode) == IF mode = "auto" THEN (IF native THEN "drv" ELSE "skb") ELSE mode
Other(slot) == IF slot = "drv" THEN "skb" ELSE "drv"

\* The kernel's answer to a request to put prog, or nothing if prog is 0,
\* into the slot of mode.
Verdict(prog, mode, noexist) ==
  IF mode = "drv" /\ ~native THEN "EOPNOTSUPP"
  ELSE IF prog # 0 /\ link[Other(Slot(mode))] # 0 THEN "EEXIST"
  ELSE IF prog # 0 /\ noexist /\ link[Slot(mode)] # 0 THEN "EBUSY"
  ELSE "0"

\* Process p goes on at to; the call it made did not fail, or failed by
\* itself and not for what the kernel had to answer.
Go(p, to) ==
  /\ pc' = [pc EXCEPT ![p] = to]
  /\ clean' = [q \in Procs |-> clean[q] /\ q = p]
  /\ UNCHANGED <<fixed, runs, faults>>

GoFault(p, to) ==
  /\ faults < MaxFaults
  /\ faults' = faults + 1
  /\ pc' = [pc EXCEPT ![p] = to]
  /\ clean' = [q \in Procs |-> FALSE]
  /\ UNCHANGED <<fixed, runs>>

Answers == {"0", "EOPNOTSUPP", "EEXIST", "EBUSY", "EIO"}

\* The request, over a netlink socket of its own.  The error decides where p
\* goes: to after[error].  A socket fails before the request is sent, or when
\* the answer is read and the kernel has already acted.
bpf_set_link_xdp_fd(p, prog, mode, noexist, after) ==
  \E answer \in {Verdict(prog, mode, noexist)} :
    \/ /\ Go(p, after[answer])
       /\ link' = IF answer = "0" THEN [link EXCEPT ![Slot(mode)] = prog] ELSE link
    \/ /\ GoFault(p, after["EIO"])
       /\ link' \in {link} \cup (IF answer = "0" THEN {[link EXCEPT ![Slot(mode)] = prog]} ELSE {})

\* With one program attached its id, whatever mode is asked for.
get_xdp_id == IF link["drv"] # 0 THEN link["drv"] ELSE link["skb"]

(***************************************************************************)
(* Starting and loading.                                                   *)
(***************************************************************************)

\* main ignores reuse_maps, which the library obeys.  A setrlimit that fails
\* ends main like a failure of the call that comes next.
Begin(c, parsed) ==
  IF parsed.exit # 0 \/ parsed.ifindex = -1 THEN "fail"
  ELSE IF parsed.do_unload THEN "get_id"
  ELSE IF c.front = "common" /\ parsed.reuse_maps THEN "open" ELSE "load"

main(p) ==
  /\ pc[p] \in Resting
  /\ runs < MaxRuns
  /\ runs' = runs + 1
  /\ \E c \in Commands : \E parsed \in {parse_user(default_cfg, c.opts)} :
       /\ cmd' = [cmd EXCEPT ![p] = c]
       /\ cfg' = [cfg EXCEPT ![p] = parsed]
       /\ pc' = [pc EXCEPT ![p] = Begin(c, parsed)]
  /\ run' = [run EXCEPT ![p] = runs']
  /\ obj' = [obj EXCEPT ![p] = NULL]
  /\ i' = [i EXCEPT ![p] = 1]
  /\ curr_prog_id' = [curr_prog_id EXCEPT ![p] = 0]
  /\ clean' = [q \in Procs |-> q = p /\ \A o \in Procs \ {p} : pc[o] \in Resting \cup {"run"}]
  /\ UNCHANGED <<fixed, kernel, faults, stuck, removed>>

\* bpf_object__load of o: the process exits if it fails.
LoadInto(p, o) ==
  \/ /\ obj' = [obj EXCEPT ![p] = bpf_object__load(o, run[p], 0)]
     /\ Go(p, IF find_program_by_title(o, "xdp_filter") = {} THEN "fail" ELSE "attach")
  \/ /\ \E bad \in 1 .. Len(o.maps) + Len(o.titles) : LoadFails(o, bad)
     /\ obj' = [obj EXCEPT ![p] = NULL]
     /\ GoFault(p, "fail")

\* An object that cannot be opened ends the process.
OpenFails(p) ==
  /\ obj' = [obj EXCEPT ![p] = NULL]
  /\ GoFault(p, "fail")

load_bpf_object_file(p) ==
  /\ pc[p] = "load"
  /\ LoadInto(p, bpf_object__open(file, TRUE, 0)) \/ OpenFails(p)
  /\ UNCHANGED <<kernel, cmd, cfg, run, i, curr_prog_id, stuck, removed>>

open_bpf_object(p) ==
  /\ pc[p] = "open"
  /\ \/ /\ obj' = [obj EXCEPT ![p] = bpf_object__open(file, TRUE, 0)]
        /\ Go(p, "reuse")
     \/ OpenFails(p)
  /\ UNCHANGED <<kernel, cmd, cfg, run, i, curr_prog_id, stuck, removed>>

\* Mutant: a map without a pin is left to be created.
ReuseSome(p) ==
  /\ pc[p] = "reuse"
  /\ i[p] \in DOMAIN obj[p].maps
  /\ obj' = [obj EXCEPT ![p].maps[i[p]].fd = pinned[obj[p].maps[i[p]].name]]
  /\ i' = [i EXCEPT ![p] = @ + 1]
  /\ Go(p, "reuse")
  /\ UNCHANGED <<kernel, cmd, cfg, run, curr_prog_id, stuck, removed>>

\* Takes the next map from its pin; the first one missing ends the process.
reuse_maps(p) ==
  /\ pc[p] = "reuse"
  /\ i[p] \in DOMAIN obj[p].maps
  /\ \E fd \in {pinned[obj[p].maps[i[p]].name]} :
       \/ /\ fd # Closed
          /\ obj' = [obj EXCEPT ![p].maps[i[p]].fd = fd]
          /\ i' = [i EXCEPT ![p] = @ + 1]
          /\ Go(p, "reuse")
       \/ /\ (fd = Closed /\ Go(p, "fail")) \/ GoFault(p, "fail")
          /\ UNCHANGED <<obj, i>>
  /\ UNCHANGED <<kernel, cmd, cfg, run, curr_prog_id, stuck, removed>>

load_bpf_object_file_reuse_maps(p) ==
  /\ pc[p] = "reuse"
  /\ i[p] \notin DOMAIN obj[p].maps
  /\ LoadInto(p, obj[p])
  /\ UNCHANGED <<kernel, cmd, cfg, run, i, curr_prog_id, stuck, removed>>

(***************************************************************************)
(* xdp_link_attach and xdp_link_detach.                                    *)
(***************************************************************************)

\* Where the front end goes on once its program is attached.
Attached(p) == IF cmd[p].front = "main" THEN "prepare" ELSE "run"

\* Mutant: a program of the opposite type is unloaded without --force too.
AfterFirstAlways(p, answer) ==
  IF answer = "0" THEN Attached(p) ELSE IF answer = "EEXIST" THEN "unload_opposite" ELSE "fail"

\* With --force, a program of the opposite type is unloaded first.
AfterFirst(p, answer) ==
  IF answer = "0" THEN Attached(p)
  ELSE IF answer = "EEXIST" /\ ~cfg[p].noexist THEN "unload_opposite" ELSE "fail"

\* Mutant: the second attempt is left out.
NoSecond(p, answer) == IF answer = "0" THEN Attached(p) ELSE "fail"

AfterUnload(p, answer) == IF answer = "0" THEN "attach_again" ELSE "fail"

\* Mutant: the mode is kept.
SameMode(mode) == mode

Opposite(mode) == IF mode = "skb" THEN "drv" ELSE "skb"

attach_first(p) ==
  /\ pc[p] = "attach"
  /\ bpf_set_link_xdp_fd(p, run[p], cfg[p].mode, cfg[p].noexist, [a \in Answers |-> AfterFirst(p, a)])
  /\ UNCHANGED <<pinned, filled, local, stuck, removed>>

unload_opposite(p) ==
  /\ pc[p] = "unload_opposite"
  /\ bpf_set_link_xdp_fd(p, 0, Opposite(cfg[p].mode), FALSE, [a \in Answers |-> AfterUnload(p, a)])
  /\ UNCHANGED <<pinned, filled, local, stuck, removed>>

attach_again(p) ==
  /\ pc[p] = "attach_again"
  /\ bpf_set_link_xdp_fd(p, run[p], cfg[p].mode, FALSE, [a \in Answers |-> IF a = "0" THEN Attached(p) ELSE "fail"])
  /\ UNCHANGED <<pinned, filled, local, stuck, removed>>

\* Mutant: an interface without a program is not recognised.
AfterIdNone(expected, id) == IF expected # 0 /\ id # expected THEN "fail" ELSE "detach"

AfterId(expected, id) ==
  IF id = 0 THEN "ok" ELSE IF expected # 0 /\ id # expected THEN "fail" ELSE "detach"

detach_get_id(p) ==
  /\ pc[p] = "get_id"
  /\ \/ /\ curr_prog_id' = [curr_prog_id EXCEPT ![p] = get_xdp_id]
        /\ Go(p, AfterId(cmd[p].expected, get_xdp_id))
     \/ /\ GoFault(p, "fail")
        /\ UNCHANGED curr_prog_id
  /\ UNCHANGED <<kernel, cmd, cfg, run, obj, i, stuck, removed>>

detach_set(p) ==
  /\ pc[p] = "detach"
  /\ bpf_set_link_xdp_fd(p, 0, cfg[p].mode, cfg[p].noexist, [a \in Answers |-> IF a = "0" THEN "ok" ELSE "fail"])
  /\ removed' = IF pc'[p] = "ok" THEN removed \cup {curr_prog_id[p]} ELSE removed
  /\ UNCHANGED <<pinned, filled, local, stuck>>

(***************************************************************************)
(* main after attaching: pin_maps_in_bpf_object, whose result it ignores,  *)
(* and the entry of tx_port.                                               *)
(***************************************************************************)

\* Earlier pins are removed if there is one called map_name.
unpin_maps(o) ==
  IF map_name \in Names /\ pinned[map_name] # Closed
  THEN [n \in Names |-> IF \E k \in DOMAIN o.maps : o.maps[k].name = n THEN Closed ELSE pinned[n]]
  ELSE pinned

pin_prepare(p) ==
  /\ pc[p] = "prepare"
  /\ pinned' = unpin_maps(obj[p])
  /\ Go(p, "pin")
  /\ UNCHANGED <<link, filled, local, stuck, removed>>

\* Mutant: the loop goes on with the next map.
PinFailsOn(p) ==
  /\ i' = [i EXCEPT ![p] = @ + 1]
  /\ UNCHANGED pinned
  /\ Go(p, "pin") \/ GoFault(p, "pin")

\* Mutant: the rollback starts with the map that could not be pinned.
PinFailsAll(p) ==
  /\ UNCHANGED <<i, pinned>>
  /\ (pinned[obj[p].maps[i[p]].name] # Closed /\ Go(p, "rollback")) \/ GoFault(p, "rollback")

\* A path that exists, or another error: the maps before are unpinned.
PinFails(p) ==
  /\ i' = [i EXCEPT ![p] = @ - 1]
  /\ UNCHANGED pinned
  /\ (pinned[obj[p].maps[i[p]].name] # Closed /\ Go(p, "rollback")) \/ GoFault(p, "rollback")

bpf_object__pin_maps(p) ==
  /\ pc[p] = "pin"
  /\ i[p] \in DOMAIN obj[p].maps
  /\ \/ /\ pinned[obj[p].maps[i[p]].name] = Closed
        /\ pinned' = [pinned EXCEPT ![obj[p].maps[i[p]].name] = obj[p].maps[i[p]].fd]
        /\ i' = [i EXCEPT ![p] = @ + 1]
        /\ Go(p, "pin")
     \/ PinFails(p)
  /\ UNCHANGED <<link, filled, cmd, cfg, run, obj, curr_prog_id, stuck, removed>>

\* Removes what is at the path of the map, from the last map to the first;
\* an error is ignored.
err_unpin_maps(p) ==
  /\ pc[p] = "rollback"
  /\ i[p] > 0
  /\ i' = [i EXCEPT ![p] = @ - 1]
  /\ \/ /\ pinned' = [pinned EXCEPT ![obj[p].maps[i[p]].name] = Closed]
        /\ Go(p, "rollback")
        /\ UNCHANGED stuck
     \/ /\ GoFault(p, "rollback")
        /\ stuck' = TRUE
        /\ UNCHANGED pinned
  /\ UNCHANGED <<link, filled, cmd, cfg, run, obj, curr_prog_id, removed>>

\* The map that main takes for tx_port, by its position: 0 if there is none.
tx_port(o) ==
  LET next(k) == bpf_map__next(o, k) IN next(next(next(next(0))))

fill_tx_port(p) ==
  /\ \/ pc[p] = "pin" /\ i[p] \notin DOMAIN obj[p].maps
     \/ pc[p] = "rollback" /\ i[p] = 0
  /\ \E k \in {tx_port(obj[p])} :
       \/ /\ filled' = IF k = 0 THEN filled ELSE filled \cup {obj[p].maps[k].fd}
          /\ Go(p, IF k = 0 THEN "fail" ELSE "run")
       \/ /\ k # 0
          /\ UNCHANGED filled
          /\ GoFault(p, "run")
  /\ UNCHANGED <<link, pinned, local, stuck, removed>>

\* A process is killed: its descriptors are closed, slots and pins stay.
Crash(p) ==
  /\ pc[p] \notin Resting
  /\ pc' = [pc EXCEPT ![p] = "off"]
  /\ obj' = [obj EXCEPT ![p] = NULL]
  /\ i' = [i EXCEPT ![p] = 0]
  /\ run' = [run EXCEPT ![p] = 0]
  /\ curr_prog_id' = [curr_prog_id EXCEPT ![p] = 0]
  /\ cmd' = [cmd EXCEPT ![p] = CHOOSE c \in Commands : TRUE]
  /\ cfg' = [cfg EXCEPT ![p] = default_cfg]
  /\ clean' = [clean EXCEPT ![p] = FALSE]
  /\ UNCHANGED <<fixed, kernel, runs, faults, stuck, removed>>

Step(p) ==
  \/ load_bpf_object_file(p)
  \/ open_bpf_object(p)
  \/ reuse_maps(p)
  \/ load_bpf_object_file_reuse_maps(p)
  \/ attach_first(p)
  \/ unload_opposite(p)
  \/ attach_again(p)
  \/ detach_get_id(p)
  \/ detach_set(p)
  \/ pin_prepare(p)
  \/ bpf_object__pin_maps(p)
  \/ err_unpin_maps(p)
  \/ fill_tx_port(p)

Next == \E p \in Procs : main(p) \/ Step(p) \/ Crash(p)

Spec == Init /\ [][Next]_vars

(***************************************************************************)
(* Properties.                                                             *)
(***************************************************************************)

(***************************************************************************)
(* The inductive invariant behind PinsOfOneRun and UnpinsOwn.              *)
(***************************************************************************)

\* Process p has created the maps of its run.
HasMaps(p) ==
  /\ DOMAIN obj[p].maps = DOMAIN Declared
  /\ \A k \in DOMAIN Declared :
       obj[p].maps[k].name = Declared[k] /\ obj[p].maps[k].fd = [run |-> run[p], name |-> Declared[k]]

\* What holds of a process at each of its steps.
Placed(p) ==
  /\ pc[p] \in {"prepare", "pin", "rollback"} => cmd[p].front = "main"
  /\ pc[p] \in {"open", "reuse"} => cmd[p].front # "main"
  /\ pc[p] \notin Resting => run[p] # 0
  /\ cmd[p].front = "main" /\ pc[p] \in {"attach", "unload_opposite", "attach_again", "prepare", "pin", "rollback"}
       => HasMaps(p)
  /\ cmd[p].front = "main" /\ pc[p] \in {"load", "attach", "unload_opposite", "attach_again", "prepare"} => i[p] = 1
  /\ pc[p] = "pin" => i[p] \in 1 .. Len(Declared) + 1
  /\ pc[p] = "rollback" => i[p] \in 0 .. Len(Declared)

\* The first n maps are pinned by p, and no other.
Owns(p, n) ==
  \A k \in DOMAIN Declared :
    IF k <= n THEN pinned[Declared[k]].run = run[p] ELSE pinned[Declared[k]] = Closed

\* What is pinned is the beginning of the list of maps, of one run.
PinnedPrefix ==
  \A j, k \in DOMAIN Declared : j <= k /\ pinned[Declared[k]] # Closed =>
    pinned[Declared[j]] # Closed /\ pinned[Declared[j]].run = pinned[Declared[k]].run

Pinning(p) ==
  /\ pc[p] = "pin" /\ i[p] > 1 => Owns(p, i[p] - 1)
  /\ pc[p] = "rollback" /\ i[p] > 0 => Owns(p, i[p])

RunsDiffer == \A p, q \in Procs : run[p] = run[q] /\ run[p] # 0 => p = q

Types ==
  /\ runs \in 0 .. MaxRuns
  /\ file \in Files
  /\ run \in [Procs -> 0 .. runs]
  /\ i \in [Procs -> Int]
  /\ DOMAIN pc = Procs /\ DOMAIN obj = Procs /\ DOMAIN cmd = Procs /\ DOMAIN pinned = Names
  /\ \A n \in Names : pinned[n] # Closed => pinned[n].run # 0

PinInv ==
  /\ Types /\ RunsDiffer
  /\ \A p \in Procs : Placed(p)
  /\ ~stuck => PinnedPrefix /\ \A p \in Procs : Pinning(p)

Fds == {Closed} \cup [run : 1 .. runs, name : Names]

\* The type of every variable of the loader's model.
TypeOK ==
  /\ native \in BOOLEAN /\ file \in Files /\ stuck \in BOOLEAN
  /\ runs \in 0 .. MaxRuns /\ faults \in 0 .. MaxFaults
  /\ link \in [Slots -> 0 .. runs]
  /\ pinned \in [Names -> Fds] /\ filled \subseteq Fds
  /\ removed \subseteq 1 .. runs
  /\ pc \in [Procs -> Resting \cup {"load", "open", "reuse", "attach", "unload_opposite", "attach_again",
                                    "get_id", "detach", "prepare", "pin", "rollback", "run"}]
  /\ cmd \in [Procs -> Commands]
  /\ run \in [Procs -> 0 .. runs] /\ curr_prog_id \in [Procs -> 0 .. runs]
  /\ i \in [Procs -> 0 .. Len(Declared) + 1]
  /\ clean \in [Procs -> BOOLEAN]

\* bpf_object__pin_maps gives up at the first path that is taken and takes
\* its own pins back from the last to the first, so that the directory never
\* mixes the maps of two runs, whoever pins, fails or is killed at the same
\* time; only a pin that could not be removed spoils it.
PinsOfOneRun ==
  ~stuck => \A m, n \in Names : Closed \in {pinned[m], pinned[n]} \/ pinned[m].run = pinned[n].run

\* As long as no system call failed, a process that took its maps from the
\* pins has the maps of one run, although it takes them one by one while
\* others pin.
ReusedTogether ==
  \A p \in Procs : faults = 0 /\ pc[p] \in {"attach", "attach_again"} /\ cfg[p].reuse_maps /\ cmd[p].front = "common"
    => \A k, l \in DOMAIN obj[p].maps : obj[p].maps[k].fd.run = obj[p].maps[l].fd.run

\* The rollback of a failed pinning unlinks by path; what it unlinks is
\* nevertheless a map of its own run.
UnpinsOwn ==
  [][\A p \in Procs, n \in Names :
       pc[p] = "rollback" /\ i'[p] # i[p] /\ pinned'[n] # pinned[n] => stuck \/ pinned[n].run = run[p]]_vars

\* Without --force or --unload no process takes a program off the interface
\* that another one attached.
OnlyForceReplaces ==
  [][\A s \in Slots : link[s] # 0 /\ link'[s] # link[s] =>
       \E p \in Procs : pc'[p] # pc[p] /\ (cfg[p].do_unload \/ ~cfg[p].noexist)]_vars

\* A start with --force that nothing disturbs fails for one reason: native
\* mode on a driver without it.  A program of the other type does not stop it.
ForceSucceeds ==
  \A p \in Procs :
    pc[p] = "fail" /\ clean[p] /\ cfg[p].exit = 0 /\ ~cfg[p].noexist /\ ~cfg[p].do_unload /\ i[p] = 1 /\ ~cfg[p].reuse_maps
    => cfg[p].ifindex = -1 \/ (cfg[p].mode = "drv" /\ ~native)

\* A process that reaches its loop undisturbed has its own program on the
\* interface in the mode it asked for, nothing in the other slot, and main
\* has put the redirect target into the map that the program calls tx_port.
RunsAttached ==
  \A p \in Procs : pc[p] = "run" /\ clean[p] =>
    /\ link = [s \in Slots |-> IF s = Slot(cfg[p].mode) THEN run[p] ELSE 0]
    /\ cmd[p].front = "main" => [run |-> run[p], name |-> "tx_port"] \in filled

\* "removed XDP prog ID" is true: a program that xdp_link_detach says it
\* removed is not on the interface any more.
RemovedIsGone == \A s \in Slots : link[s] \notin removed

\* "Unpinning (remove) prev maps": once an undisturbed main has pinned its
\* maps, the pins are its own.
PrevMapsUnpinned ==
  \A p \in Procs : pc[p] = "run" /\ clean[p] /\ cmd[p].front = "main" => \A n \in Names : pinned[n].run = run[p]
=============================================================================
