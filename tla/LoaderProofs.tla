---------------------------- MODULE LoaderProofs ----------------------------
(***************************************************************************)
(* Theorems about Loader, for any number of processes, starts, failing     *)
(* calls and maps: the pin directory, the interface's slots, the types,    *)
(* and what a start of a process ends with.                                *)
(***************************************************************************)
EXTENDS Loader, TLAPS

\* The prover of every leaf that does not name another one.
USE Zenon

\* The maps are numbered from 1.
LEMMA Positions ==
  /\ Len(Declared) \in Nat /\ DOMAIN Declared = 1 .. Len(Declared)
  /\ \A k \in DOMAIN Declared : k \in Int /\ 1 <= k /\ 1 \in DOMAIN Declared /\ Declared[k] \in Names
<1>1. Len(Declared) \in Nat /\ DOMAIN Declared = 1 .. Len(Declared) BY NamesAssumption, SMT
<1> QED BY <1>1, SMT DEF Names

\* Loading an object creates the maps that are not there yet, and leaves the
\* others alone.
LEMMA LoadMaps ==
  ASSUME NEW o \in OpenObject, NEW r
  PROVE  \E m : /\ bpf_object__load(o, r, 0).maps = m
               /\ DOMAIN m = DOMAIN o.maps
               /\ \A k \in DOMAIN o.maps :
                    /\ m[k].name = o.maps[k].name
                    /\ m[k].fd = IF o.maps[k].fd = Closed THEN [run |-> r, name |-> o.maps[k].name] ELSE o.maps[k].fd
<1>1. PICK Map : /\ Map = [name : STRING, type : STRING, sec_idx : Int, sec_offset : Int, fd : [run : Nat, name : STRING]]
                 /\ o.maps \in Seq(Map) /\ o.titles \in Seq(STRING)
  BY DEF OpenObject
<1>2. /\ Len(o.maps) \in Nat /\ DOMAIN o.maps = 1 .. Len(o.maps)
      /\ Len(o.titles) \in Nat /\ DOMAIN o.titles = 1 .. Len(o.titles)
      /\ \A k \in DOMAIN o.maps : o.maps[k] \in Map
  <2>1. \A s, S : s \in Seq(S) => Len(s) \in Nat /\ DOMAIN s = 1 .. Len(s) /\ \A k \in DOMAIN s : s[k] \in S
    BY SMT
  <2> QED BY <1>1, <2>1
<1>3. ~ Creates(o.maps, 0) /\ 0 - Len(o.maps) \notin DOMAIN o.titles
  BY <1>2, SMT DEF Creates
<1>4. PICK m : m = create_maps(o.maps, r, 0)
  OBVIOUS
<1>5. m = [k \in DOMAIN o.maps |->
            IF o.maps[k].fd = Closed THEN [o.maps[k] EXCEPT !.fd = [run |-> r, name |-> o.maps[k].name]] ELSE o.maps[k]]
  BY <1>3, <1>4 DEF create_maps
<1>6. \A k \in DOMAIN o.maps :
        /\ m[k].name = o.maps[k].name
        /\ m[k].fd = IF o.maps[k].fd = Closed THEN [run |-> r, name |-> o.maps[k].name] ELSE o.maps[k].fd
  BY <1>1, <1>2, <1>5
<1>7. bpf_object__load(o, r, 0) = Relocated([o EXCEPT !.maps = m], r, 0)
  BY <1>3, <1>4 DEF bpf_object__load, LoadFails
<1>8. Relocated([o EXCEPT !.maps = m], r, 0).maps = m
  BY DEF Relocated, OpenObject
<1> QED BY <1>5, <1>6, <1>7, <1>8

\* A process that does not move stays rightly placed.
LEMMA PlacedSame ==
  ASSUME NEW q \in Procs, Placed(q),
         pc'[q] = pc[q], i'[q] = i[q], run'[q] = run[q], cmd'[q] = cmd[q], obj'[q] = obj[q]
  PROVE  Placed(q)'
<1>1. HasMaps(q)' <=> HasMaps(q) BY DEF HasMaps
<1> QED BY <1>1 DEF Placed

\* Where main is while it pins and unpins.
LEMMA PlacedPinning ==
  ASSUME NEW p \in Procs, HasMaps(p)', run'[p] # 0, cmd'[p].front = "main",
         \/ pc'[p] = "pin" /\ i'[p] \in 1 .. Len(Declared) + 1
         \/ pc'[p] = "rollback" /\ i'[p] \in 0 .. Len(Declared)
  PROVE  Placed(p)'
BY DEF Placed

\* The counter of a process that pins or unpins points into the list.
LEMMA Counter ==
  ASSUME NEW q \in Procs, Placed(q)
  PROVE  /\ pc[q] = "pin" /\ i[q] > 1 => i[q] - 1 \in DOMAIN Declared
         /\ pc[q] = "rollback" /\ i[q] > 0 => i[q] \in DOMAIN Declared /\ i[q] - 1 \in 0 .. Len(Declared)
<1>1. Len(Declared) \in Nat /\ DOMAIN Declared = 1 .. Len(Declared) BY Positions
<1>2. \A n \in 1 .. Len(Declared) + 1 : n > 1 => n - 1 \in DOMAIN Declared BY <1>1, SMT
<1>3. \A n \in 0 .. Len(Declared) : n > 0 => n \in DOMAIN Declared /\ n - 1 \in 0 .. Len(Declared) BY <1>1, SMT
<1>4. pc[q] = "pin" => i[q] \in 1 .. Len(Declared) + 1 BY DEF Placed
<1>5. pc[q] = "rollback" => i[q] \in 0 .. Len(Declared) BY DEF Placed
<1> QED BY <1>2, <1>3, <1>4, <1>5

\* Pins of one run, owned up to the n-th map, are an initial part of the list.
LEMMA OwnedPrefix ==
  ASSUME NEW r, r # 0, NEW n \in Int,
         \A k \in DOMAIN Declared : IF k <= n THEN pinned'[Declared[k]].run = r ELSE pinned'[Declared[k]] = Closed
  PROVE  PinnedPrefix'
<1> SUFFICES ASSUME NEW j \in DOMAIN Declared, NEW k \in DOMAIN Declared, j <= k, pinned'[Declared[k]] # Closed
             PROVE  pinned'[Declared[j]] # Closed /\ pinned'[Declared[j]].run = pinned'[Declared[k]].run
  BY DEF PinnedPrefix
<1>1. j \in Int /\ k \in Int BY Positions
<1>2. k <= n BY <1>1
<1>3. j <= n BY <1>1, <1>2, SMT
<1>4. pinned'[Declared[j]].run = r /\ pinned'[Declared[k]].run = r BY <1>2, <1>3
<1>5. Closed.run = 0 BY DEF Closed
<1> QED BY <1>4, <1>5

\* Initially nothing is pinned and no process has started.
LEMMA PinInit == Init => PinInv
<1> SUFFICES ASSUME Init PROVE PinInv OBVIOUS
<1>1. Types
  <2>1. runs \in 0 .. MaxRuns BY BoundsAssumption, SMT DEF Init
  <2>2. file \in Files BY DEF Init
  <2>3. run \in [Procs -> 0 .. runs] BY SMT DEF Init
  <2>4. i \in [Procs -> Int] BY SMT DEF Init
  <2>5. DOMAIN pc = Procs /\ DOMAIN obj = Procs /\ DOMAIN cmd = Procs /\ DOMAIN pinned = Names BY DEF Init
  <2>6. \A n \in Names : pinned[n] = Closed BY DEF Init
  <2> QED BY <2>1, <2>2, <2>3, <2>4, <2>5, <2>6 DEF Types
<1>2. RunsDiffer BY DEF Init, RunsDiffer
<1>3. \A p \in Procs : Placed(p) BY DEF Init, Placed, Resting
<1>4. PinnedPrefix BY DEF Init, PinnedPrefix, Names
<1>5. \A p \in Procs : Pinning(p) BY DEF Init, Pinning
<1> QED BY <1>1, <1>2, <1>3, <1>4, <1>5 DEF PinInv

\* A step of p that leaves the pins alone keeps the invariant if p is rightly
\* placed afterwards and has not pinned anything.
LEMMA Quiet ==
  ASSUME PinInv, NEW p \in Procs,
         UNCHANGED <<fixed, runs, run, cmd, pinned, stuck>>,
         NEW to, pc' = [pc EXCEPT ![p] = to],
         DOMAIN obj' = Procs, \A q \in Procs \ {p} : obj'[q] = obj[q],
         i' \in [Procs -> Int], \A q \in Procs \ {p} : i'[q] = i[q],
         Placed(p)', to # "rollback", to = "pin" => i'[p] = 1
  PROVE  PinInv'
<1>1. Types' BY DEF PinInv, Types, fixed
<1>2. RunsDiffer' BY DEF PinInv, RunsDiffer
<1>3. \A q \in Procs : Placed(q)'
  <2> TAKE q \in Procs
  <2>1. CASE q = p BY <2>1
  <2>2. CASE q # p
    <3>1. pc'[q] = pc[q] /\ i'[q] = i[q] /\ obj'[q] = obj[q] BY <2>2 DEF PinInv, Types
    <3>2. Placed(q) BY DEF PinInv
    <3> QED BY <3>1, <3>2, PlacedSame
  <2> QED BY <2>1, <2>2
<1>4. ~stuck' => PinnedPrefix' BY DEF PinInv, PinnedPrefix
<1>5. ~stuck' => \A q \in Procs : Pinning(q)'
  <2> SUFFICES ASSUME ~stuck, NEW q \in Procs PROVE Pinning(q)' OBVIOUS
  <2>1. CASE q = p BY <2>1, SMT DEF PinInv, Types, Pinning
  <2>2. CASE q # p
    <3>1. pc'[q] = pc[q] /\ i'[q] = i[q] BY <2>2 DEF PinInv, Types
    <3>2. Pinning(q) BY DEF PinInv
    <3> QED BY <3>1, <3>2 DEF Pinning, Owns
  <2> QED BY <2>1, <2>2
<1> QED BY <1>1, <1>2, <1>3, <1>4, <1>5 DEF PinInv

\* Loading a new object gives p the maps of its run.
LEMMA NewMaps ==
  ASSUME PinInv, NEW p \in Procs, run[p] # 0,
         obj' = [obj EXCEPT ![p] = bpf_object__load(bpf_object__open(file, TRUE, 0), run[p], 0)],
         UNCHANGED run
  PROVE  HasMaps(p)'
<1>1. PICK o : o = bpf_object__open(file, TRUE, 0) OBVIOUS
<1>2. /\ o \in OpenObject /\ DOMAIN o.maps = DOMAIN Declared
      /\ \A k \in DOMAIN Declared : o.maps[k].name = Declared[k] /\ o.maps[k].fd = Closed
  BY <1>1, FilesAssumption DEF PinInv, Types
<1>3. obj'[p] = bpf_object__load(o, run[p], 0) BY <1>1 DEF PinInv, Types
<1>4. PICK m : /\ bpf_object__load(o, run[p], 0).maps = m /\ DOMAIN m = DOMAIN Declared
               /\ \A k \in DOMAIN Declared :
                    m[k].name = Declared[k] /\ m[k].fd = [run |-> run[p], name |-> Declared[k]]
  BY <1>2, LoadMaps, SMT
<1>5. obj'[p].maps = m BY <1>3, <1>4
<1> QED BY <1>4, <1>5 DEF HasMaps

\* load_bpf_object_file creates the maps or ends the process.
LEMMA LoadKeeps == ASSUME PinInv, NEW p \in Procs, load_bpf_object_file(p) PROVE PinInv'
<1>1. /\ pc[p] = "load" /\ Placed(p)
      /\ UNCHANGED <<fixed, runs, run, cmd, i, pinned, stuck>>
  BY DEF PinInv, load_bpf_object_file, kernel, LoadInto, OpenFails, Go, GoFault
<1>2. i \in [Procs -> Int] /\ DOMAIN pc = Procs /\ DOMAIN obj = Procs BY DEF PinInv, Types
<1>3. CASE /\ obj' = [obj EXCEPT ![p] = bpf_object__load(bpf_object__open(file, TRUE, 0), run[p], 0)]
           /\ \E to \in {"attach", "fail"} : pc' = [pc EXCEPT ![p] = to]
  <2>1. PICK to \in {"attach", "fail"} : pc' = [pc EXCEPT ![p] = to] BY <1>3
  <2>2. HasMaps(p)' BY <1>1, <1>3, NewMaps DEF Placed, Resting
  <2>3. Placed(p)' BY <1>1, <1>2, <2>1, <2>2 DEF Placed, Resting
  <2> QED BY <1>1, <1>2, <1>3, <2>1, <2>3, Quiet
<1>4. CASE obj' = [obj EXCEPT ![p] = NULL] /\ pc' = [pc EXCEPT ![p] = "fail"]
  <2>1. Placed(p)' BY <1>1, <1>2, <1>4 DEF Placed, Resting
  <2> QED BY <1>1, <1>2, <1>4, <2>1, Quiet
<1> QED BY <1>3, <1>4 DEF load_bpf_object_file, LoadInto, OpenFails, Go, GoFault

\* Opening and reusing is the library's way, not main's.
LEMMA ReuseKeeps ==
  ASSUME PinInv, NEW p \in Procs,
         open_bpf_object(p) \/ reuse_maps(p) \/ load_bpf_object_file_reuse_maps(p)
  PROVE  PinInv'
<1>1. /\ pc[p] \in {"open", "reuse"} /\ Placed(p)
      /\ UNCHANGED <<fixed, runs, run, cmd, pinned, stuck>>
      /\ \E to \in {"reuse", "attach", "fail"} : pc' = [pc EXCEPT ![p] = to]
  BY DEF PinInv, open_bpf_object, reuse_maps, load_bpf_object_file_reuse_maps, kernel, LoadInto,
     OpenFails, Go, GoFault
<1>2. i \in [Procs -> Int] /\ DOMAIN pc = Procs /\ DOMAIN obj = Procs BY DEF PinInv, Types
<1>3. DOMAIN obj' = Procs /\ \A q \in Procs \ {p} : obj'[q] = obj[q]
  <2>1. CASE open_bpf_object(p) BY <1>2, <2>1 DEF open_bpf_object, OpenFails
  <2>2. CASE reuse_maps(p) BY <1>2, <2>2 DEF reuse_maps
  <2>3. CASE load_bpf_object_file_reuse_maps(p) BY <1>2, <2>3 DEF load_bpf_object_file_reuse_maps, LoadInto
  <2> QED BY <2>1, <2>2, <2>3
<1>4. i' \in [Procs -> Int] /\ \A q \in Procs \ {p} : i'[q] = i[q]
  <2>1. CASE reuse_maps(p)
    <3>1. i' = i \/ i' = [i EXCEPT ![p] = i[p] + 1] BY <2>1 DEF reuse_maps
    <3> QED BY <1>2, <3>1, SMT
  <2>2. CASE UNCHANGED i BY <1>2, <2>2
  <2> QED BY <2>1, <2>2 DEF open_bpf_object, load_bpf_object_file_reuse_maps
<1>5. PICK to \in {"reuse", "attach", "fail"} : pc' = [pc EXCEPT ![p] = to] BY <1>1
<1>6. Placed(p)' BY <1>1, <1>2, <1>5 DEF Placed, Resting
<1> QED BY <1>1, <1>3, <1>4, <1>5, <1>6, Quiet

\* Requests to the interface do not touch pins.
LEMMA LinkKeeps ==
  ASSUME PinInv, NEW p \in Procs,
         attach_first(p) \/ unload_opposite(p) \/ attach_again(p) \/ detach_get_id(p) \/ detach_set(p)
  PROVE  PinInv'
<1>1. UNCHANGED <<run, cmd, obj, i, pinned, stuck>> /\ Placed(p)
  BY DEF PinInv, attach_first, unload_opposite, attach_again, detach_get_id, detach_set, kernel, local
<1>2. i \in [Procs -> Int] /\ DOMAIN pc = Procs /\ DOMAIN obj = Procs BY DEF PinInv, Types
<1>3. CASE pc[p] \in {"attach", "unload_opposite", "attach_again"}
  <2>1. UNCHANGED <<fixed, runs>> /\
        \E to \in {Attached(p), "unload_opposite", "attach_again", "fail"} : pc' = [pc EXCEPT ![p] = to]
    BY <1>3 DEF attach_first, unload_opposite, attach_again, detach_get_id, detach_set,
       bpf_set_link_xdp_fd, Answers, Verdict,
                Go, GoFault, AfterFirst, AfterUnload
  <2>2. PICK to \in {Attached(p), "unload_opposite", "attach_again", "fail"} : pc' = [pc EXCEPT ![p] = to] BY <2>1
  <2>3. Placed(p)' BY <1>1, <1>2, <1>3, <2>2 DEF Placed, HasMaps, Resting, Attached
  <2> QED BY <1>1, <1>2, <2>1, <2>2, <2>3, Quiet DEF Attached
<1>4. CASE pc[p] \in {"get_id", "detach"}
  <2>1. UNCHANGED <<fixed, runs>> /\ \E to \in {"ok", "fail", "detach"} : pc' = [pc EXCEPT ![p] = to]
    BY <1>4 DEF attach_first, unload_opposite, attach_again, detach_get_id, detach_set,
       bpf_set_link_xdp_fd, Answers, Verdict,
                Go, GoFault, AfterId
  <2>2. PICK to \in {"ok", "fail", "detach"} : pc' = [pc EXCEPT ![p] = to] BY <2>1
  <2>3. Placed(p)' BY <1>1, <1>2, <1>4, <2>2 DEF Placed, Resting
  <2> QED BY <1>1, <1>2, <2>1, <2>2, <2>3, Quiet
<1> QED BY <1>3, <1>4 DEF attach_first, unload_opposite, attach_again, detach_get_id, detach_set

\* There is no map called map_name, so nothing is unpinned before pinning.
LEMMA PrepareKeeps == ASSUME PinInv, NEW p \in Procs, pin_prepare(p) PROVE PinInv'
<1>1. map_name \notin Names BY NamesAssumption DEF map_name, Names
<1>2. pinned' = pinned BY <1>1 DEF pin_prepare, unpin_maps
<1>3. /\ pc[p] = "prepare" /\ Placed(p) /\ pc' = [pc EXCEPT ![p] = "pin"]
      /\ UNCHANGED <<fixed, runs, run, cmd, obj, i, stuck>>
  BY DEF PinInv, pin_prepare, local, Go
<1>4. i \in [Procs -> Int] /\ DOMAIN pc = Procs /\ DOMAIN obj = Procs BY DEF PinInv, Types
<1>5. Len(Declared) \in Nat BY Positions
<1>6. i[p] = 1 BY <1>3 DEF Placed
<1>7. Placed(p)' BY <1>3, <1>4, <1>5, <1>6, SMT DEF Placed, HasMaps, Resting
<1> QED BY <1>2, <1>3, <1>4, <1>6, <1>7, Quiet

\* The entry of tx_port comes after pinning and does not touch pins.
LEMMA FillKeeps == ASSUME PinInv, NEW p \in Procs, fill_tx_port(p) PROVE PinInv'
<1>1. /\ pc[p] \in {"pin", "rollback"} /\ Placed(p)
      /\ \E to \in {"run", "fail"} : pc' = [pc EXCEPT ![p] = to]
      /\ UNCHANGED <<fixed, runs, run, cmd, obj, i, pinned, stuck>>
  BY DEF PinInv, fill_tx_port, local, Go, GoFault
<1>2. i \in [Procs -> Int] /\ DOMAIN pc = Procs /\ DOMAIN obj = Procs BY DEF PinInv, Types
<1>3. PICK to \in {"run", "fail"} : pc' = [pc EXCEPT ![p] = to] BY <1>1
<1>4. Placed(p)' BY <1>1, <1>2, <1>3 DEF Placed, Resting
<1> QED BY <1>1, <1>2, <1>3, <1>4, Quiet

\* A killed process owns nothing more; its pins stay.
LEMMA CrashKeeps == ASSUME PinInv, NEW p \in Procs, Crash(p) PROVE PinInv'
<1> USE DEF PinInv
<1>1. /\ UNCHANGED <<runs, file, pinned, stuck>>
      /\ pc' = [pc EXCEPT ![p] = "off"] /\ run' = [run EXCEPT ![p] = 0] /\ i' = [i EXCEPT ![p] = 0]
      /\ obj' = [obj EXCEPT ![p] = NULL] /\ DOMAIN cmd' = DOMAIN cmd /\ \A q \in Procs \ {p} : cmd'[q] = cmd[q]
  BY DEF Crash, kernel, fixed, Types
<1>2. Types' BY <1>1, BoundsAssumption, SMT DEF Types
<1>3. RunsDiffer' BY <1>1 DEF RunsDiffer, Types
<1>4. \A q \in Procs \ {p} : /\ pc'[q] = pc[q] /\ run'[q] = run[q] /\ i'[q] = i[q]
                             /\ obj'[q] = obj[q] /\ cmd'[q] = cmd[q]
  BY <1>1 DEF Types
<1>5. pc'[p] = "off" BY <1>1 DEF Types
<1>6. \A q \in Procs : Placed(q)'
  <2> TAKE q \in Procs
  <2>1. CASE q = p BY <1>5, <2>1 DEF Placed, Resting
  <2>2. CASE q # p BY <1>4, <2>2, PlacedSame
  <2> QED BY <2>1, <2>2
<1>7. ~stuck => PinnedPrefix' BY <1>1 DEF PinnedPrefix
<1>8. ~stuck => \A q \in Procs : Pinning(q)'
  <2> SUFFICES ASSUME ~stuck, NEW q \in Procs PROVE Pinning(q)' OBVIOUS
  <2>1. CASE q = p BY <1>5, <2>1 DEF Pinning
  <2>2. CASE q # p BY <1>1, <1>4, <2>2, SMT DEF Pinning, Owns
  <2> QED BY <2>1, <2>2
<1> QED BY <1>1, <1>2, <1>3, <1>6, <1>7, <1>8

\* A start takes a new run number, so that no pin is its own yet.
LEMMA MainKeeps == ASSUME PinInv, NEW p \in Procs, main(p) PROVE PinInv'
<1> USE DEF PinInv
<1>1. PICK c \in Commands : \E parsed \in {parse_user(default_cfg, c.opts)} :
        cmd' = [cmd EXCEPT ![p] = c] /\ pc' = [pc EXCEPT ![p] = Begin(c, parsed)]
  BY DEF main
<1>2. PICK parsed : cmd' = [cmd EXCEPT ![p] = c] /\ pc' = [pc EXCEPT ![p] = Begin(c, parsed)] BY <1>1
<1>3. /\ UNCHANGED <<file, pinned, stuck>> /\ runs < MaxRuns /\ runs' = runs + 1
      /\ run' = [run EXCEPT ![p] = runs + 1] /\ i' = [i EXCEPT ![p] = 1] /\ obj' = [obj EXCEPT ![p] = NULL]
  BY DEF main, kernel, fixed
<1>4. Types' BY <1>2, <1>3, BoundsAssumption, SMT DEF Types
<1>5. RunsDiffer' BY <1>3, BoundsAssumption, SMT DEF RunsDiffer, Types
<1>6. \A q \in Procs \ {p} : /\ pc'[q] = pc[q] /\ run'[q] = run[q] /\ i'[q] = i[q]
                             /\ obj'[q] = obj[q] /\ cmd'[q] = cmd[q]
  BY <1>2, <1>3 DEF Types
<1>7. pc'[p] = Begin(c, parsed) /\ cmd'[p] = c /\ i'[p] = 1 /\ run'[p] # 0
  BY <1>2, <1>3, BoundsAssumption, SMT DEF Types
<1>8. \A q \in Procs : Placed(q)'
  <2> TAKE q \in Procs
  <2>1. CASE q = p BY <1>7, <2>1 DEF Placed, Resting, Begin
  <2>2. CASE q # p BY <1>6, <2>2, PlacedSame
  <2> QED BY <2>1, <2>2
<1>9. ~stuck => PinnedPrefix' BY <1>3 DEF PinnedPrefix
<1>10. ~stuck => \A q \in Procs : Pinning(q)'
  <2> SUFFICES ASSUME ~stuck, NEW q \in Procs PROVE Pinning(q)' OBVIOUS
  <2>1. CASE q = p BY <1>7, <2>1 DEF Pinning, Begin
  <2>2. CASE q # p BY <1>3, <1>6, <2>2, SMT DEF Pinning, Owns
  <2> QED BY <2>1, <2>2
<1> QED BY <1>3, <1>4, <1>5, <1>8, <1>9, <1>10

\* The directory belongs to the process that pins or unpins in it: another
\* one that also owned the first map would be of the same run.
LEMMA OneOwner ==
  ASSUME PinInv, NEW p \in Procs, NEW q \in Procs, q # p, pc[p] \in {"pin", "rollback"}, pc[q] \notin Resting,
         NEW n \in DOMAIN Declared, NEW m \in DOMAIN Declared, Owns(p, n), Owns(q, m)
  PROVE  FALSE
<1>1. 1 \in DOMAIN Declared /\ 1 <= n /\ 1 <= m BY Positions
<1>2. run[p] = pinned[Declared[1]].run /\ run[q] = pinned[Declared[1]].run BY <1>1 DEF Owns
<1>3. run[p] # 0 BY DEF PinInv, Placed, Resting
<1> QED BY <1>2, <1>3 DEF PinInv, RunsDiffer

\* A change of one pin, together with the owner's counter, keeps what others
\* rely on if none of them owns anything.
LEMMA Exclusive ==
  ASSUME PinInv, NEW p \in Procs, NEW to \in {"pin", "rollback"},
         UNCHANGED <<fixed, runs, run, cmd, obj>>,
         pc' = [pc EXCEPT ![p] = to], NEW v \in Int, i' = [i EXCEPT ![p] = v],
         DOMAIN pinned' = Names, \A n \in Names : pinned'[n] # Closed => pinned'[n].run # 0,
         Placed(p)',
         ~stuck' => /\ PinnedPrefix' /\ Pinning(p)'
                    /\ pinned' = pinned \/ \A q \in Procs \ {p} : \A n \in DOMAIN Declared :
                                               pc[q] \in {"pin", "rollback"} => ~Owns(q, n),
         ~stuck' => ~stuck
  PROVE  PinInv'
<1> USE DEF PinInv
<1>1. Types' BY DEF Types, fixed
<1>2. RunsDiffer' BY DEF RunsDiffer
<1>3. \A q \in Procs \ {p} : pc'[q] = pc[q] /\ i'[q] = i[q] BY DEF Types
<1>4. \A q \in Procs : Placed(q)'
  <2> TAKE q \in Procs
  <2>1. CASE q = p BY <2>1
  <2>2. CASE q # p BY <1>3, <2>2, PlacedSame
  <2> QED BY <2>1, <2>2
<1>5. ~stuck' => \A q \in Procs : Pinning(q)'
  <2> SUFFICES ASSUME ~stuck', NEW q \in Procs, q # p PROVE Pinning(q)' OBVIOUS
  <2>1. Pinning(q) /\ Placed(q) /\ pc'[q] = pc[q] /\ i'[q] = i[q] /\ i[q] \in Int BY <1>3 DEF Types
  <2>2. CASE pinned' = pinned BY <2>1, <2>2 DEF Pinning, Owns
  <2>3. CASE \A n \in DOMAIN Declared : pc[q] \in {"pin", "rollback"} => ~Owns(q, n)
    <3>1. ~(pc[q] = "pin" /\ i[q] > 1)
      <4> SUFFICES ASSUME pc[q] = "pin" /\ i[q] > 1 PROVE FALSE OBVIOUS
      <4>1. i[q] - 1 \in DOMAIN Declared BY <2>1, Counter
      <4> QED BY <2>1, <2>3, <4>1 DEF Pinning
    <3>2. ~(pc[q] = "rollback" /\ i[q] > 0)
      <4> SUFFICES ASSUME pc[q] = "rollback" /\ i[q] > 0 PROVE FALSE OBVIOUS
      <4>1. i[q] \in DOMAIN Declared BY <2>1, Counter
      <4> QED BY <2>1, <2>3, <4>1 DEF Pinning
    <3> QED BY <2>1, <3>1, <3>2 DEF Pinning
  <2> QED BY <2>2, <2>3
<1> QED BY <1>1, <1>2, <1>4, <1>5

\* A descriptor that is not open belongs to no run.
LEMMA ClosedRun == Closed.run = 0
BY DEF Closed

\* While p pins or unpins, no other process owns a pin.
LEMMA Alone ==
  ASSUME PinInv, ~stuck, NEW p \in Procs, pc[p] \in {"pin", "rollback"}, i[p] \in DOMAIN Declared,
         pc[p] = "pin" => pinned[Declared[i[p]]] = Closed
  PROVE  \A q \in Procs \ {p} : \A m \in DOMAIN Declared : pc[q] \in {"pin", "rollback"} => ~Owns(q, m)
<1> SUFFICES ASSUME NEW q \in Procs, q # p, NEW m \in DOMAIN Declared, pc[q] \in {"pin", "rollback"}, Owns(q, m)
             PROVE  FALSE
  OBVIOUS
<1>1. Pinning(p) /\ PinnedPrefix BY DEF PinInv
<1>2. i[p] \in Int /\ 1 <= i[p] /\ 1 <= m /\ 1 \in DOMAIN Declared BY Positions
<1>3. CASE pc[p] = "rollback" BY <1>1, <1>2, <1>3, OneOwner, SMT DEF Pinning, Resting
<1>4. CASE pc[p] = "pin" /\ i[p] > 1
  <2>1. i[p] - 1 \in DOMAIN Declared BY <1>2, <1>4, Positions, SMT
  <2> QED BY <1>1, <1>4, <2>1, OneOwner DEF Pinning, Resting
<1>5. CASE pc[p] = "pin" /\ i[p] = 1
  <2>1. pinned[Declared[1]] = Closed BY <1>5
  <2>2. pinned[Declared[1]].run = run[q] BY <1>2 DEF Owns
  <2>3. run[q] # 0 BY DEF PinInv, Placed, Resting
  <2> QED BY <2>1, <2>2, <2>3, ClosedRun
<1> QED BY <1>2, <1>3, <1>4, <1>5, SMT

\* A map is pinned next to those of the same run; a path that is taken starts
\* the rollback with the map before it.
LEMMA PinKeeps == ASSUME PinInv, NEW p \in Procs, bpf_object__pin_maps(p) PROVE PinInv'
<1>1. /\ pc[p] = "pin" /\ Placed(p) /\ i \in [Procs -> Int] /\ DOMAIN pc = Procs /\ DOMAIN pinned = Names
      /\ i[p] \in DOMAIN obj[p].maps /\ UNCHANGED <<fixed, runs, run, cmd, obj, stuck>>
  BY DEF PinInv, Types, bpf_object__pin_maps, PinFails, Go, GoFault
<1>2. HasMaps(p) /\ cmd[p].front = "main" /\ run[p] # 0 BY <1>1 DEF Placed, Resting
<1>3. i[p] \in DOMAIN Declared BY <1>1, <1>2 DEF HasMaps
<1>4. Declared[i[p]] \in Names /\ i[p] \in 1 .. Len(Declared) /\ Len(Declared) \in Nat BY <1>3, Positions
<1>5. obj[p].maps[i[p]].name = Declared[i[p]] /\ obj[p].maps[i[p]].fd = [run |-> run[p], name |-> Declared[i[p]]]
  BY <1>2, <1>3 DEF HasMaps
<1>6. HasMaps(p)' BY <1>1, <1>2 DEF HasMaps
<1>7. CASE /\ pinned[Declared[i[p]]] = Closed /\ pc' = [pc EXCEPT ![p] = "pin"]
           /\ pinned' = [pinned EXCEPT ![Declared[i[p]]] = [run |-> run[p], name |-> Declared[i[p]]]]
           /\ i' = [i EXCEPT ![p] = i[p] + 1]
  <2>1. DOMAIN pinned' = Names /\ \A n \in Names : pinned'[n] # Closed => pinned'[n].run # 0
    BY <1>1, <1>2, <1>7 DEF PinInv, Types
  <2>2. pc'[p] = "pin" /\ i'[p] = i[p] + 1 /\ i[p] + 1 \in Int BY <1>1, <1>7, SMT
  <2>3. i'[p] \in 1 .. Len(Declared) + 1 BY <1>4, <2>2, SMT
  <2>4. Placed(p)' BY <1>1, <1>2, <1>6, <2>2, <2>3, PlacedPinning
  <2>5. \A k \in DOMAIN Declared : k # i[p] => pinned'[Declared[k]] = pinned[Declared[k]]
    BY <1>1, <1>3, <1>7, NamesAssumption DEF Names
  <2>6. pinned'[Declared[i[p]]].run = run[p] BY <1>1, <1>4, <1>7
  <2>7. ~stuck' => /\ PinnedPrefix' /\ Pinning(p)'
                   /\ \A q \in Procs \ {p} : \A n \in DOMAIN Declared : pc[q] \in {"pin", "rollback"} => ~Owns(q, n)
    <3> SUFFICES ASSUME ~stuck
                 PROVE  /\ PinnedPrefix' /\ Pinning(p)'
                        /\ \A q \in Procs \ {p} : \A n \in DOMAIN Declared :
                             pc[q] \in {"pin", "rollback"} => ~Owns(q, n)
      BY <1>1
    <3>1. \A k \in DOMAIN Declared :
            IF k <= i[p] THEN pinned'[Declared[k]].run = run[p] ELSE pinned'[Declared[k]] = Closed
      <4> TAKE k \in DOMAIN Declared
      <4>1. k \in Int /\ 1 <= k /\ i[p] \in Int /\ 1 <= i[p] /\ 1 \in DOMAIN Declared BY <1>4, Positions
      <4>2. CASE k = i[p] BY <2>6, <4>1, <4>2, SMT
      <4>3. CASE k # i[p] /\ i[p] > 1
        <5>1. Owns(p, i[p] - 1) BY <1>1, <4>3 DEF PinInv, Pinning
        <5>2. IF k <= i[p] - 1 THEN pinned[Declared[k]].run = run[p] ELSE pinned[Declared[k]] = Closed
          BY <5>1 DEF Owns
        <5>3. pinned'[Declared[k]] = pinned[Declared[k]] BY <2>5, <4>3
        <5>4. k <= i[p] - 1 <=> k <= i[p] BY <4>1, <4>3, SMT
        <5> QED BY <5>2, <5>3, <5>4
      <4>4. CASE k # i[p] /\ i[p] = 1
        <5>1. PinnedPrefix BY DEF PinInv
        <5>2. pinned[Declared[1]] = Closed BY <1>7, <4>4
        <5>3. pinned[Declared[k]] = Closed BY <4>1, <5>1, <5>2 DEF PinnedPrefix
        <5>4. pinned'[Declared[k]] = pinned[Declared[k]] BY <2>5, <4>4
        <5> QED BY <4>1, <4>4, <5>3, <5>4, SMT
      <4> QED BY <4>1, <4>2, <4>3, <4>4, SMT
    <3>2. i[p] \in Int BY <1>1
    <3>3. Pinning(p)'
      <4>1. i'[p] - 1 = i[p] BY <2>2, <3>2, SMT
      <4> QED BY <1>1, <2>2, <3>1, <4>1 DEF Pinning, Owns
    <3>4. PinnedPrefix' BY <1>2, <3>1, <3>2, OwnedPrefix
    <3> QED BY <1>1, <1>3, <1>7, <3>3, <3>4, Alone
  <2> QED BY <1>1, <1>7, <2>1, <2>2, <2>4, <2>7, Exclusive
<1>8. CASE UNCHANGED pinned /\ i' = [i EXCEPT ![p] = i[p] - 1] /\ pc' = [pc EXCEPT ![p] = "rollback"]
  <2>1. pc'[p] = "rollback" /\ i'[p] = i[p] - 1 /\ i[p] - 1 \in Int BY <1>1, <1>8, SMT
  <2>2. i'[p] \in 0 .. Len(Declared) BY <1>4, <2>1, SMT
  <2>3. Placed(p)' BY <1>1, <1>2, <1>6, <2>1, <2>2, PlacedPinning
  <2>4. ~stuck' => PinnedPrefix' BY <1>1, <1>8 DEF PinInv, PinnedPrefix
  <2>5. ~stuck' => Pinning(p)'
    <3>1. i[p] > 1 <=> i'[p] > 0 BY <1>4, <2>1, SMT
    <3>2. ~stuck /\ i[p] > 1 => Owns(p, i[p] - 1) BY <1>1 DEF PinInv, Pinning
    <3>3. ~stuck /\ i[p] > 1 => Owns(p, i[p])' BY <1>1, <1>8, <2>1, <3>2 DEF Owns
    <3> QED BY <1>1, <2>1, <3>1, <3>3 DEF Pinning
  <2>6. DOMAIN pinned' = Names /\ \A n \in Names : pinned'[n] # Closed => pinned'[n].run # 0
    BY <1>1, <1>8 DEF PinInv, Types
  <2> QED BY <1>1, <1>8, <2>1, <2>3, <2>4, <2>5, <2>6, Exclusive
<1> QED BY <1>5, <1>7, <1>8 DEF bpf_object__pin_maps, PinFails, Go, GoFault

\* The last of the pins goes first; only this process's are left.
LEMMA RollbackKeeps == ASSUME PinInv, NEW p \in Procs, err_unpin_maps(p) PROVE PinInv'
<1>1. /\ pc[p] = "rollback" /\ Placed(p) /\ i \in [Procs -> Int] /\ DOMAIN pc = Procs /\ DOMAIN pinned = Names
      /\ i[p] > 0 /\ UNCHANGED <<fixed, runs, run, cmd, obj>>
      /\ i' = [i EXCEPT ![p] = i[p] - 1] /\ pc' = [pc EXCEPT ![p] = "rollback"]
  BY DEF PinInv, Types, err_unpin_maps, Go, GoFault
<1>2. HasMaps(p) /\ cmd[p].front = "main" /\ run[p] # 0 /\ i[p] \in 0 .. Len(Declared)
  BY <1>1 DEF Placed, Resting
<1>3. i[p] \in DOMAIN Declared /\ i[p] \in Int BY <1>1, <1>2, Positions, SMT
<1>4. Declared[i[p]] \in Names /\ obj[p].maps[i[p]].name = Declared[i[p]] BY <1>2, <1>3, Positions DEF HasMaps
<1>5. pc'[p] = "rollback" /\ i'[p] = i[p] - 1 /\ i[p] - 1 \in Int BY <1>1, SMT
<1>6. Placed(p)'
  <2>1. HasMaps(p)' BY <1>1, <1>2 DEF HasMaps
  <2>2. i'[p] \in 0 .. Len(Declared) BY <1>1, <1>5, Counter
  <2> QED BY <1>1, <1>2, <1>5, <2>1, <2>2, PlacedPinning
<1>7. CASE pinned' = [pinned EXCEPT ![Declared[i[p]]] = Closed] /\ UNCHANGED stuck
  <2>1. DOMAIN pinned' = Names /\ \A n \in Names : pinned'[n] # Closed => pinned'[n].run # 0
    BY <1>1, <1>7 DEF PinInv, Types
  <2>2. \A k \in DOMAIN Declared : pinned'[Declared[k]] = IF k = i[p] THEN Closed ELSE pinned[Declared[k]]
    BY <1>1, <1>3, <1>7, NamesAssumption DEF Names
  <2>3. ~stuck' => /\ PinnedPrefix' /\ Pinning(p)'
                   /\ \A q \in Procs \ {p} : \A n \in DOMAIN Declared : pc[q] \in {"pin", "rollback"} => ~Owns(q, n)
    <3> SUFFICES ASSUME ~stuck
                 PROVE  /\ PinnedPrefix' /\ Pinning(p)'
                        /\ \A q \in Procs \ {p} : \A n \in DOMAIN Declared :
                             pc[q] \in {"pin", "rollback"} => ~Owns(q, n)
      BY <1>7
    <3>1. \A k \in DOMAIN Declared :
            IF k <= i[p] - 1 THEN pinned'[Declared[k]].run = run[p] ELSE pinned'[Declared[k]] = Closed
      <4> TAKE k \in DOMAIN Declared
      <4>1. k \in Int BY Positions
      <4>2. Owns(p, i[p]) BY <1>1 DEF PinInv, Pinning
      <4>3. IF k <= i[p] THEN pinned[Declared[k]].run = run[p] ELSE pinned[Declared[k]] = Closed BY <4>2 DEF Owns
      <4>4. CASE k = i[p] BY <1>3, <2>2, <4>4, SMT
      <4>5. CASE k # i[p]
        <5>1. k <= i[p] - 1 <=> k <= i[p] BY <1>3, <4>1, <4>5, SMT
        <5>2. pinned'[Declared[k]] = pinned[Declared[k]] BY <2>2, <4>5
        <5> QED BY <4>3, <5>1, <5>2
      <4> QED BY <4>4, <4>5
    <3>2. Pinning(p)' BY <1>1, <1>5, <3>1 DEF Pinning, Owns
    <3>3. PinnedPrefix' BY <1>2, <1>5, <3>1, OwnedPrefix
    <3> QED BY <1>1, <1>3, <3>2, <3>3, Alone
  <2> QED BY <1>1, <1>5, <1>6, <1>7, <2>1, <2>3, Exclusive
<1>8. CASE UNCHANGED pinned /\ stuck'
  <2>1. DOMAIN pinned' = Names /\ \A n \in Names : pinned'[n] # Closed => pinned'[n].run # 0
    BY <1>1, <1>8 DEF PinInv, Types
  <2> QED BY <1>1, <1>5, <1>6, <1>8, <2>1, Exclusive
<1> QED BY <1>4, <1>7, <1>8 DEF err_unpin_maps

\* The invariant holds whatever the processes do.
THEOREM PinInvariant == Spec => []PinInv
<1>1. PinInv /\ [Next]_vars => PinInv'
  <2> SUFFICES ASSUME PinInv, [Next]_vars PROVE PinInv' OBVIOUS
  <2>1. CASE UNCHANGED vars
    <3>1. UNCHANGED <<file, pinned, runs, pc, cmd, run, obj, i, stuck>> BY <2>1 DEF vars, fixed, kernel, local
    <3>2. Types' /\ RunsDiffer' BY <3>1 DEF PinInv, Types, RunsDiffer
    <3>3. \A p \in Procs : Placed(p)' BY <3>1, PlacedSame DEF PinInv
    <3>4. ~stuck' => PinnedPrefix' BY <3>1 DEF PinInv, PinnedPrefix
    <3>5. ~stuck' => \A p \in Procs : Pinning(p)' BY <3>1 DEF PinInv, Pinning, Owns
    <3> QED BY <3>2, <3>3, <3>4, <3>5 DEF PinInv
  <2>2. CASE Next
    <3>1. PICK p \in Procs : main(p) \/ Step(p) \/ Crash(p) BY <2>2 DEF Next
    <3> QED BY <3>1, MainKeeps, CrashKeeps, LoadKeeps, ReuseKeeps, LinkKeeps, PrepareKeeps, PinKeeps,
               RollbackKeeps, FillKeeps DEF Step
  <2> QED BY <2>1, <2>2
<1> QED BY <1>1, PinInit, PTL DEF Spec

\* bpf_object__pin_maps and its rollback never leave maps of two runs in the
\* directory, however many processes pin, fail and are killed, unless a pin
\* could not be removed.
THEOREM PinsStayTogether == Spec => []PinsOfOneRun
<1>1. PinInv => PinsOfOneRun
  <2> SUFFICES ASSUME PinInv, ~stuck, NEW m \in Names, NEW n \in Names, pinned[m] # Closed, pinned[n] # Closed
               PROVE  pinned[m].run = pinned[n].run
    BY DEF PinsOfOneRun
  <2>1. PICK j \in DOMAIN Declared, k \in DOMAIN Declared : m = Declared[j] /\ n = Declared[k] BY DEF Names
  <2>2. j \in Int /\ k \in Int BY Positions
  <2> QED BY <2>1, <2>2, SMT DEF PinInv, PinnedPrefix
<1> QED BY <1>1, PinInvariant, PTL

\* What the rollback of bpf_object__pin_maps unlinks by path is a map of its
\* own run, although others pin and are killed in between.
THEOREM RollbackUnpinsOwn == Spec => UnpinsOwn
<1> DEFINE Own == \A p \in Procs, n \in Names :
      pc[p] = "rollback" /\ i'[p] # i[p] /\ pinned'[n] # pinned[n] => stuck \/ pinned[n].run = run[p]
<1>1. PinInv /\ [Next]_vars => [Own]_vars
  <2> SUFFICES ASSUME PinInv, Next, NEW p \in Procs, NEW n \in Names, ~stuck,
                      pc[p] = "rollback", i'[p] # i[p], pinned'[n] # pinned[n]
               PROVE  pinned[n].run = run[p]
    OBVIOUS
  <2>1. PICK q \in Procs : main(q) \/ Step(q) \/ Crash(q) BY DEF Next
  <2>2. i \in [Procs -> Int] /\ DOMAIN pinned = Names BY DEF PinInv, Types
  <2>3. bpf_object__pin_maps(q) \/ err_unpin_maps(q) \/ pin_prepare(q)
    BY <2>1 DEF main, Crash, kernel, local, Step, load_bpf_object_file, open_bpf_object, reuse_maps,
                load_bpf_object_file_reuse_maps, attach_first, unload_opposite, attach_again, detach_get_id,
                detach_set, fill_tx_port
  <2>4. q = p BY <2>2, <2>3 DEF bpf_object__pin_maps, PinFails, err_unpin_maps, pin_prepare, local
  <2>5. err_unpin_maps(p) BY <2>3, <2>4 DEF bpf_object__pin_maps, pin_prepare
  <2>6. HasMaps(p) /\ i[p] > 0 /\ Owns(p, i[p]) /\ i[p] \in 0 .. Len(Declared)
    BY <2>5 DEF PinInv, Placed, Pinning, err_unpin_maps
  <2>7. i[p] \in DOMAIN Declared /\ i[p] \in Int BY <2>6, Positions, SMT
  <2>8. n = Declared[i[p]] BY <2>2, <2>5, <2>6, <2>7 DEF err_unpin_maps, HasMaps
  <2> QED BY <2>6, <2>7, <2>8, SMT DEF Owns
<1>2. [][Own]_vars => UnpinsOwn BY PTL DEF UnpinsOwn
<1> QED BY <1>1, <1>2, PinInvariant, PTL DEF Spec

(***************************************************************************)
(* The interface.                                                          *)
(***************************************************************************)

\* Where a process may be with the options it has.
LinkInv ==
  /\ DOMAIN pc = Procs /\ DOMAIN cfg = Procs /\ DOMAIN link = Slots
  /\ \A p \in Procs : /\ pc[p] \in {"unload_opposite", "attach_again"} => ~cfg[p].noexist
                      /\ pc[p] \in {"get_id", "detach"} => cfg[p].do_unload

\* Only --force leads to unloading the program of the other type, and only
\* --unload to xdp_link_detach.
THEOREM LinkInvariant == Spec => []LinkInv
<1>1. Init => LinkInv BY DEF Init, LinkInv
<1>2. LinkInv /\ [Next]_vars => LinkInv'
  <2> SUFFICES ASSUME LinkInv, [Next]_vars PROVE LinkInv' OBVIOUS
  <2>1. CASE UNCHANGED vars BY <2>1 DEF LinkInv, vars, kernel, local
  <2>2. ASSUME NEW p \in Procs, main(p) PROVE LinkInv'
    <3>1. PICK c \in Commands : \E parsed \in {parse_user(default_cfg, c.opts)} :
            cfg' = [cfg EXCEPT ![p] = parsed] /\ pc' = [pc EXCEPT ![p] = Begin(c, parsed)]
      BY <2>2 DEF main
    <3>2. PICK parsed : cfg' = [cfg EXCEPT ![p] = parsed] /\ pc' = [pc EXCEPT ![p] = Begin(c, parsed)] BY <3>1
    <3>3. UNCHANGED link BY <2>2 DEF main, kernel
    <3> QED BY <3>2, <3>3 DEF LinkInv, Begin
  <2>3. ASSUME NEW p \in Procs, Crash(p) PROVE LinkInv' BY <2>3 DEF Crash, LinkInv, kernel
  <2>4. ASSUME NEW p \in Procs, UNCHANGED <<cfg, link>>,
               \E to \in {"prepare", "pin", "rollback", "run", "reuse", "attach", "ok", "fail"} : pc' = [pc EXCEPT ![p] = to]
        PROVE  LinkInv'
    BY <2>4 DEF LinkInv
  <2>5. ASSUME NEW p \in Procs, attach_first(p) \/ unload_opposite(p) \/ attach_again(p) \/ detach_set(p)
        PROVE  LinkInv'
    <3>1. UNCHANGED cfg /\ DOMAIN link' = Slots
      BY <2>5 DEF LinkInv, attach_first, unload_opposite, attach_again, detach_set, local,
         bpf_set_link_xdp_fd, Answers, Verdict
    <3>2. CASE attach_first(p)
      BY <3>1, <3>2, SMT DEF LinkInv, attach_first, bpf_set_link_xdp_fd, Answers, Verdict, Go, GoFault,
         AfterFirst, Attached
    <3>3. CASE unload_opposite(p)
      BY <3>1, <3>3 DEF LinkInv, unload_opposite, bpf_set_link_xdp_fd, Answers, Verdict, Go, GoFault, AfterUnload
    <3>4. CASE attach_again(p)
      BY <3>1, <3>4 DEF LinkInv, attach_again, bpf_set_link_xdp_fd, Answers, Verdict, Go, GoFault, Attached
    <3>5. CASE detach_set(p)
      BY <3>1, <3>5 DEF LinkInv, detach_set, bpf_set_link_xdp_fd, Answers, Verdict, Go, GoFault
    <3> QED BY <2>5, <3>2, <3>3, <3>4, <3>5
  <2>6. ASSUME NEW p \in Procs, detach_get_id(p) PROVE LinkInv'
    BY <2>6 DEF LinkInv, detach_get_id, Go, GoFault, kernel, AfterId
  <2>7. ASSUME NEW p \in Procs, load_bpf_object_file(p) \/ open_bpf_object(p) \/ reuse_maps(p)
                                 \/ load_bpf_object_file_reuse_maps(p) \/ pin_prepare(p)
                                 \/ bpf_object__pin_maps(p) \/ err_unpin_maps(p) \/ fill_tx_port(p)
        PROVE  LinkInv'
    <3>1. UNCHANGED <<cfg, link>>
      BY <2>7 DEF load_bpf_object_file, open_bpf_object, reuse_maps, load_bpf_object_file_reuse_maps, pin_prepare,
                  bpf_object__pin_maps, err_unpin_maps, fill_tx_port, local, kernel
    <3>2. \E to \in {"prepare", "pin", "rollback", "run", "reuse", "attach", "ok", "fail"} : pc' = [pc EXCEPT ![p] = to]
      BY <2>7 DEF load_bpf_object_file, open_bpf_object, reuse_maps, load_bpf_object_file_reuse_maps, pin_prepare,
                  bpf_object__pin_maps, err_unpin_maps, fill_tx_port, PinFails, LoadInto, OpenFails, Go, GoFault
    <3> QED BY <2>4, <3>1, <3>2
  <2> QED BY <2>1, <2>2, <2>3, <2>5, <2>6, <2>7 DEF Next, Step
<1> QED BY <1>1, <1>2, PTL DEF Spec

\* A slot that holds a program changes only at the hands of a process that
\* was started with --force or --unload, whatever races with it.
THEOREM NoForceKeeps == Spec => OnlyForceReplaces
<1> DEFINE Forced == \A s \in Slots : link[s] # 0 /\ link'[s] # link[s] =>
      \E p \in Procs : pc'[p] # pc[p] /\ (cfg[p].do_unload \/ ~cfg[p].noexist)
<1>1. PinInv /\ LinkInv /\ [Next]_vars => [Forced]_vars
  <2> SUFFICES ASSUME PinInv, LinkInv, Next, NEW s \in Slots, link[s] # 0, link'[s] # link[s]
               PROVE  \E p \in Procs : pc'[p] # pc[p] /\ (cfg[p].do_unload \/ ~cfg[p].noexist)
    OBVIOUS
  <2>1. PICK p \in Procs : main(p) \/ Step(p) \/ Crash(p) BY DEF Next
  <2>2. attach_first(p) \/ unload_opposite(p) \/ attach_again(p) \/ detach_set(p)
    BY <2>1 DEF main, Crash, kernel, Step, load_bpf_object_file, open_bpf_object, reuse_maps,
                load_bpf_object_file_reuse_maps, detach_get_id, pin_prepare, bpf_object__pin_maps,
                err_unpin_maps, fill_tx_port
  <2>3. CASE attach_first(p)
    <3>1. pc'[p] # pc[p]
      BY <2>3 DEF LinkInv, attach_first, bpf_set_link_xdp_fd, Answers, Verdict, Go, GoFault, AfterFirst, Attached
    <3>2. link' = [link EXCEPT ![Slot(cfg[p].mode)] = run[p]] /\ Verdict(run[p], cfg[p].mode, cfg[p].noexist) = "0"
      BY <2>3 DEF attach_first, bpf_set_link_xdp_fd, Answers, Verdict
    <3>3. s = Slot(cfg[p].mode) /\ link'[s] = run[p] BY <3>2 DEF LinkInv
    <3>4. run[p] # 0 BY <2>3 DEF PinInv, Placed, Resting, attach_first
    <3> QED BY <3>1, <3>2, <3>3, <3>4 DEF Verdict
  <2>4. CASE unload_opposite(p)
    <3>1. \E to \in {"attach_again", "fail"} : pc' = [pc EXCEPT ![p] = to]
      BY <2>4 DEF unload_opposite, bpf_set_link_xdp_fd, Answers, Verdict, Go, GoFault, AfterUnload
    <3>2. pc[p] = "unload_opposite" BY <2>4 DEF unload_opposite
    <3>3. ~cfg[p].noexist BY <3>2 DEF LinkInv
    <3>4. pc'[p] # pc[p] BY <3>1, <3>2 DEF LinkInv
    <3> QED BY <3>3, <3>4
  <2>5. CASE attach_again(p)
    <3>1. \E to \in {"prepare", "run", "fail"} : pc' = [pc EXCEPT ![p] = to]
      BY <2>5 DEF attach_again, bpf_set_link_xdp_fd, Answers, Verdict, Go, GoFault, Attached
    <3>2. pc[p] = "attach_again" BY <2>5 DEF attach_again
    <3>3. ~cfg[p].noexist BY <3>2 DEF LinkInv
    <3>4. pc'[p] # pc[p] BY <3>1, <3>2 DEF LinkInv
    <3> QED BY <3>3, <3>4
  <2>6. CASE detach_set(p)
    <3>1. \E to \in {"ok", "fail"} : pc' = [pc EXCEPT ![p] = to]
      BY <2>6 DEF detach_set, bpf_set_link_xdp_fd, Answers, Verdict, Go, GoFault
    <3>2. pc[p] = "detach" BY <2>6 DEF detach_set
    <3>3. cfg[p].do_unload BY <3>2 DEF LinkInv
    <3>4. pc'[p] # pc[p] BY <3>1, <3>2 DEF LinkInv
    <3> QED BY <3>3, <3>4
  <2> QED BY <2>2, <2>3, <2>4, <2>5, <2>6
<1>2. [][Forced]_vars => OnlyForceReplaces BY PTL DEF OnlyForceReplaces
<1> QED BY <1>1, <1>2, PinInvariant, LinkInvariant, PTL DEF Spec

----------------------------------------------------------------------------
(***************************************************************************)
(* Types, and the objects of processes that take their maps from the pins. *)
(***************************************************************************)

Attaching == {"attach", "unload_opposite", "attach_again"}
Labels == Resting \cup Attaching \cup {"load", "open", "reuse", "get_id", "detach", "prepare", "pin", "rollback", "run"}

\* The object of a process that takes its maps from the pins one by one.
Reusing(p) ==
  /\ pc[p] = "open" => i[p] = 1
  /\ pc[p] = "reuse" => /\ obj[p] \in OpenObject /\ DOMAIN obj[p].maps = DOMAIN Declared
                        /\ \A k \in DOMAIN Declared : obj[p].maps[k].name = Declared[k]
                        /\ i[p] \in 1 .. Len(Declared) + 1

TypeInv ==
  /\ TypeOK
  /\ DOMAIN obj = Procs
  /\ \A p \in Procs : Reusing(p) /\ (pc[p] = "detach" => curr_prog_id[p] # 0)

\* The next pin is taken into the object, or p gives up.
LEMMA ReuseTypes ==
  ASSUME NEW o \in OpenObject, DOMAIN o.maps = DOMAIN Declared,
         NEW n \in DOMAIN Declared, NEW fd \in [run : Nat, name : STRING],
         NEW new, new = [o EXCEPT !.maps = [o.maps EXCEPT ![n] = [o.maps[n] EXCEPT !.fd = fd]]]
  PROVE  /\ new \in OpenObject /\ DOMAIN new.maps = DOMAIN Declared
         /\ \A k \in DOMAIN Declared : new.maps[k].name = o.maps[k].name
         /\ \A k \in DOMAIN Declared : new.maps[k].fd = IF k = n THEN fd ELSE o.maps[k].fd
<1>1. PICK Map : Map = [name : STRING, type : STRING, sec_idx : Int, sec_offset : Int, fd : [run : Nat, name : STRING]]
  OBVIOUS
<1>2. PICK m : m = [o.maps EXCEPT ![n] = [o.maps[n] EXCEPT !.fd = fd]]
  OBVIOUS
<1>3. o.maps \in Seq(Map)
  BY <1>1 DEF OpenObject
<1>4. o.maps[n] \in Map
  <2>1. \A s, S : s \in Seq(S) => \A k \in DOMAIN s : s[k] \in S
    BY SMT
  <2> QED BY <1>3, <2>1
<1>5. /\ [o.maps[n] EXCEPT !.fd = fd] \in Map
      /\ [o.maps[n] EXCEPT !.fd = fd].name = o.maps[n].name
      /\ [o.maps[n] EXCEPT !.fd = fd].fd = fd
  BY <1>1, <1>4
<1>6. m \in Seq(Map) /\ DOMAIN m = DOMAIN o.maps
  <2>1. \A s, S : s \in Seq(S) =>
          \A k \in DOMAIN s : \A x \in S : [s EXCEPT ![k] = x] \in Seq(S) /\ DOMAIN [s EXCEPT ![k] = x] = DOMAIN s
    BY SMT
  <2> QED BY <1>2, <1>3, <1>5, <2>1
<1>7. new.maps = m /\ new \in OpenObject
  BY <1>1, <1>2, <1>6 DEF OpenObject
<1> QED BY <1>2, <1>5, <1>6, <1>7, SMT

\* Every step keeps the types of the variables of other processes.
LEMMA FdsGrow ==
  ASSUME TypeOK, runs' \in {runs, runs + 1}, runs' <= MaxRuns
  PROVE  /\ Fds \subseteq Fds' /\ 0 .. runs \subseteq 0 .. runs' /\ 1 .. runs \subseteq 1 .. runs'
         /\ runs' \in 0 .. MaxRuns
BY BoundsAssumption, SMT DEF TypeOK, Fds

\* A step of p with a system call keeps the types if what it writes has its
\* type.
LEMMA TypesMove ==
  ASSUME TypeInv, NEW p \in Procs, NEW to \in Labels, Go(p, to) \/ GoFault(p, to),
         UNCHANGED <<cmd, run>>,
         link' \in [Slots -> 0 .. runs], pinned' \in [Names -> Fds], filled' \subseteq Fds,
         removed' \subseteq 1 .. runs, stuck' \in BOOLEAN,
         curr_prog_id' \in [Procs -> 0 .. runs], \A q \in Procs \ {p} : curr_prog_id'[q] = curr_prog_id[q],
         i' \in [Procs -> 0 .. Len(Declared) + 1], \A q \in Procs \ {p} : i'[q] = i[q],
         DOMAIN obj' = Procs, \A q \in Procs \ {p} : obj'[q] = obj[q],
         to = "detach" => curr_prog_id'[p] # 0,
         to \in {"open", "reuse"} => Reusing(p)'
  PROVE  TypeInv'
<1>1. /\ UNCHANGED <<native, file, runs>> /\ faults' \in 0 .. MaxFaults
      /\ pc' = [pc EXCEPT ![p] = to] /\ clean' \in [Procs -> BOOLEAN]
  <2>1. CASE Go(p, to)
    BY <2>1 DEF Go, fixed, TypeInv, TypeOK
  <2>2. CASE GoFault(p, to)
    BY <2>2, BoundsAssumption, SMT DEF GoFault, fixed, TypeInv, TypeOK
  <2> QED BY <2>1, <2>2
<1>2. pc \in [Procs -> Labels] /\ Fds' = Fds
  BY <1>1 DEF TypeInv, TypeOK, Labels, Attaching, Fds
<1>3. pc' \in [Procs -> Labels] /\ pc'[p] = to /\ \A q \in Procs \ {p} : pc'[q] = pc[q]
  BY <1>1, <1>2
<1>4. TypeOK'
  BY <1>1, <1>2, <1>3 DEF TypeInv, TypeOK, Labels, Attaching
<1>5. \A q \in Procs : Reusing(q)' /\ (pc'[q] = "detach" => curr_prog_id'[q] # 0)
  <2> SUFFICES ASSUME NEW q \in Procs
               PROVE  Reusing(q)' /\ (pc'[q] = "detach" => curr_prog_id'[q] # 0)
    OBVIOUS
  <2>1. CASE q = p
    <3>1. to \notin {"open", "reuse"} => Reusing(p)'
      BY <1>3 DEF Reusing
    <3> QED BY <1>3, <2>1, <3>1
  <2>2. CASE q # p
    <3>1. pc'[q] = pc[q] /\ i'[q] = i[q] /\ obj'[q] = obj[q] /\ curr_prog_id'[q] = curr_prog_id[q]
      BY <1>3, <2>2
    <3>2. Reusing(q) /\ (pc[q] = "detach" => curr_prog_id[q] # 0)
      BY DEF TypeInv
    <3> QED BY <3>1, <3>2 DEF Reusing
  <2> QED BY <2>1, <2>2
<1> QED BY <1>4, <1>5 DEF TypeInv

\* The steps that load the object keep the types.
LEMMA TypesLoad ==
  ASSUME TypeInv, PinInv, NEW p \in Procs,
         load_bpf_object_file(p) \/ open_bpf_object(p) \/ reuse_maps(p) \/ load_bpf_object_file_reuse_maps(p)
  PROVE  TypeInv'
<1>0. /\ link \in [Slots -> 0 .. runs] /\ pinned \in [Names -> Fds] /\ filled \subseteq Fds
      /\ removed \subseteq 1 .. runs /\ stuck \in BOOLEAN /\ curr_prog_id \in [Procs -> 0 .. runs]
      /\ i \in [Procs -> 0 .. Len(Declared) + 1] /\ DOMAIN obj = Procs
  BY DEF TypeInv, TypeOK
<1>1. UNCHANGED <<link, pinned, filled, cmd, run, curr_prog_id, stuck, removed>>
  BY DEF load_bpf_object_file, open_bpf_object, reuse_maps, load_bpf_object_file_reuse_maps, kernel
<1>2. ASSUME NEW to \in {"attach", "fail"}, Go(p, to) \/ GoFault(p, to), UNCHANGED i,
             DOMAIN obj' = Procs, \A q \in Procs \ {p} : obj'[q] = obj[q]
      PROVE  TypeInv'
  <2>1. to \in Labels /\ to \notin {"detach", "open", "reuse"}
    BY DEF Labels, Attaching, Resting
  <2> QED BY <1>0, <1>1, <1>2, <2>1, TypesMove
<1>3. ASSUME NEW o, LoadInto(p, o) \/ OpenFails(p), UNCHANGED i
      PROVE  TypeInv'
  <2>1. DOMAIN obj' = Procs /\ \A q \in Procs \ {p} : obj'[q] = obj[q]
    BY <1>0, <1>3 DEF LoadInto, OpenFails
  <2>2. \E to \in {"attach", "fail"} : Go(p, to) \/ GoFault(p, to)
    BY <1>3 DEF LoadInto, OpenFails
  <2> QED BY <1>2, <1>3, <2>1, <2>2
<1>4. CASE load_bpf_object_file(p) \/ load_bpf_object_file_reuse_maps(p)
  <2>1. UNCHANGED i /\ \E o : LoadInto(p, o) \/ OpenFails(p)
    BY <1>4 DEF load_bpf_object_file, load_bpf_object_file_reuse_maps
  <2> QED BY <1>3, <2>1
<1>5. CASE open_bpf_object(p)
  <2>1. UNCHANGED i /\ pc[p] = "open"
    BY <1>5 DEF open_bpf_object
  <2>2. CASE OpenFails(p)
    BY <1>3, <2>1, <2>2
  <2>3. CASE obj' = [obj EXCEPT ![p] = bpf_object__open(file, TRUE, 0)] /\ Go(p, "reuse")
    <3>1. PICK o : o = bpf_object__open(file, TRUE, 0)
      OBVIOUS
    <3>2. /\ o \in OpenObject /\ DOMAIN o.maps = DOMAIN Declared
          /\ \A k \in DOMAIN Declared : o.maps[k].name = Declared[k]
      BY <3>1, FilesAssumption DEF TypeInv, TypeOK
    <3>3. obj'[p] = o /\ DOMAIN obj' = Procs /\ \A q \in Procs \ {p} : obj'[q] = obj[q]
      BY <1>0, <2>3, <3>1
    <3>4. i[p] = 1 /\ 1 \in 1 .. Len(Declared) + 1
      BY <2>1, Positions, SMT DEF TypeInv, Reusing
    <3>5. pc'[p] = "reuse"
      BY <2>3 DEF Go, TypeInv, TypeOK
    <3>6. Reusing(p)'
      BY <2>1, <3>2, <3>3, <3>4, <3>5 DEF Reusing
    <3>7. "reuse" \in Labels
      BY DEF Labels
    <3> QED BY <1>0, <1>1, <2>1, <2>3, <3>3, <3>6, <3>7, TypesMove
  <2> QED BY <1>5, <2>2, <2>3 DEF open_bpf_object
<1>6. CASE reuse_maps(p)
  <2>1. PICK o, n, fd : o = obj[p] /\ n = i[p] /\ fd = pinned[obj[p].maps[i[p]].name]
    OBVIOUS
  <2>2. /\ pc[p] = "reuse" /\ o \in OpenObject /\ DOMAIN o.maps = DOMAIN Declared
        /\ \A k \in DOMAIN Declared : o.maps[k].name = Declared[k]
        /\ n \in DOMAIN Declared
    BY <1>6, <2>1 DEF reuse_maps, TypeInv, Reusing
  <2>3. CASE UNCHANGED <<obj, i>> /\ (Go(p, "fail") \/ GoFault(p, "fail"))
    BY <1>0, <1>2, <2>3
  <2>4. CASE /\ fd # Closed /\ obj' = [obj EXCEPT ![p].maps[i[p]].fd = fd] /\ i' = [i EXCEPT ![p] = @ + 1]
             /\ Go(p, "reuse")
    <3>1. fd \in [run : Nat, name : STRING]
      <4>1. o.maps[n].name \in Names
        BY <2>2 DEF Names
      <4>2. fd \in Fds
        BY <1>0, <2>1, <4>1
      <4>3. \A x \in Names : x \in STRING
        BY NamesAssumption, SMT DEF Names
      <4>4. runs \in Nat
        BY BoundsAssumption, SMT DEF TypeInv, TypeOK
      <4> QED BY <2>4, <4>2, <4>3, <4>4, SMT DEF Fds
    <3>2. PICK new : new = [o EXCEPT !.maps = [o.maps EXCEPT ![n] = [o.maps[n] EXCEPT !.fd = fd]]]
      OBVIOUS
    <3>3. /\ new \in OpenObject /\ DOMAIN new.maps = DOMAIN Declared
          /\ \A k \in DOMAIN Declared : new.maps[k].name = Declared[k]
      BY <2>2, <3>1, <3>2, ReuseTypes, SMT
    <3>4. obj'[p] = new /\ DOMAIN obj' = Procs /\ \A q \in Procs \ {p} : obj'[q] = obj[q]
      BY <1>0, <2>1, <2>4, <3>2
    <3>5. /\ n \in 1 .. Len(Declared) /\ Len(Declared) \in Nat
      BY <2>2, Positions
    <3>6. /\ i'[p] = n + 1 /\ i' \in [Procs -> 0 .. Len(Declared) + 1]
          /\ \A q \in Procs \ {p} : i'[q] = i[q] /\ n + 1 \in 1 .. Len(Declared) + 1
      BY <1>0, <2>1, <2>4, <3>5, SMT
    <3>7. n + 1 \in 1 .. Len(Declared) + 1
      BY <3>5, SMT
    <3>8. pc'[p] = "reuse"
      BY <2>4 DEF Go, TypeInv, TypeOK
    <3>9. Reusing(p)'
      BY <3>3, <3>4, <3>6, <3>7, <3>8 DEF Reusing
    <3>10. "reuse" \in Labels
      BY DEF Labels
    <3> QED BY <1>0, <1>1, <2>4, <3>4, <3>6, <3>9, <3>10, TypesMove
  <2> QED BY <1>6, <2>1, <2>3, <2>4 DEF reuse_maps
<1> QED BY <1>4, <1>5, <1>6

\* The requests to the interface keep the types.
LEMMA TypesLink ==
  ASSUME TypeInv, PinInv, NEW p \in Procs,
         attach_first(p) \/ unload_opposite(p) \/ attach_again(p) \/ detach_get_id(p) \/ detach_set(p)
  PROVE  TypeInv'
<1>0. /\ link \in [Slots -> 0 .. runs] /\ pinned \in [Names -> Fds] /\ filled \subseteq Fds
      /\ removed \subseteq 1 .. runs /\ stuck \in BOOLEAN /\ curr_prog_id \in [Procs -> 0 .. runs]
      /\ i \in [Procs -> 0 .. Len(Declared) + 1] /\ DOMAIN obj = Procs
      /\ run \in [Procs -> 0 .. runs] /\ runs \in Nat
  BY BoundsAssumption, SMT DEF TypeInv, TypeOK
<1>1. UNCHANGED <<pinned, filled, cmd, run, obj, i, stuck>>
  BY DEF attach_first, unload_opposite, attach_again, detach_get_id, detach_set, kernel, local
<1>2. ASSUME NEW prog \in 0 .. runs, NEW mode, NEW noexist, NEW after,
             bpf_set_link_xdp_fd(p, prog, mode, noexist, after),
             \A a \in Answers : after[a] \in Labels
      PROVE  /\ link' \in [Slots -> 0 .. runs]
             /\ \E a \in Answers : Go(p, after[a]) \/ GoFault(p, after[a])
  <2>1. Verdict(prog, mode, noexist) \in Answers /\ "EIO" \in Answers
    BY DEF Verdict, Answers
  <2>2. link' = link \/ link' = [link EXCEPT ![Slot(mode)] = prog]
    BY <1>2 DEF bpf_set_link_xdp_fd
  <2>3. link' \in [Slots -> 0 .. runs]
    BY <1>0, <2>2
  <2> QED BY <1>2, <2>1, <2>3 DEF bpf_set_link_xdp_fd
<1>3. {"prepare", "run", "fail", "ok", "detach", "unload_opposite", "attach_again"} \subseteq Labels
  BY DEF Labels, Attaching, Resting
<1>4. CASE attach_first(p) \/ unload_opposite(p) \/ attach_again(p)
  <2>1. /\ link' \in [Slots -> 0 .. runs] /\ UNCHANGED <<removed, curr_prog_id>>
        /\ \E to \in {"prepare", "run", "fail", "unload_opposite", "attach_again"} : Go(p, to) \/ GoFault(p, to)
    <3>0. run[p] \in 0 .. runs /\ 0 \in 0 .. runs
      BY <1>0, SMT
    <3>1. UNCHANGED <<removed, curr_prog_id>>
      BY <1>4 DEF attach_first, unload_opposite, attach_again, local
    <3>2. CASE attach_first(p)
      <4>1. PICK after : /\ after = [a \in Answers |-> AfterFirst(p, a)]
                         /\ bpf_set_link_xdp_fd(p, run[p], cfg[p].mode, cfg[p].noexist, after)
        BY <3>2 DEF attach_first
      <4>2. \A a \in Answers : after[a] \in {"prepare", "run", "fail", "unload_opposite", "attach_again"}
        BY <4>1 DEF AfterFirst, Attached
      <4> QED BY <1>2, <1>3, <3>0, <3>1, <4>1, <4>2, SMT
    <3>3. CASE unload_opposite(p)
      <4>1. PICK after, no : /\ after = [a \in Answers |-> AfterUnload(p, a)] /\ no = FALSE
                             /\ bpf_set_link_xdp_fd(p, 0, Opposite(cfg[p].mode), no, after)
        BY <3>3 DEF unload_opposite
      <4>2. \A a \in Answers : after[a] \in {"prepare", "run", "fail", "unload_opposite", "attach_again"}
        BY <4>1 DEF AfterUnload
      <4> QED BY <1>2, <1>3, <3>0, <3>1, <4>1, <4>2, SMT
    <3>4. CASE attach_again(p)
      <4>1. PICK after, no : /\ after = [a \in Answers |-> IF a = "0" THEN Attached(p) ELSE "fail"] /\ no = FALSE
                             /\ bpf_set_link_xdp_fd(p, run[p], cfg[p].mode, no, after)
        BY <3>4 DEF attach_again
      <4>2. \A a \in Answers : after[a] \in {"prepare", "run", "fail", "unload_opposite", "attach_again"}
        BY <4>1 DEF Attached
      <4> QED BY <1>2, <1>3, <3>0, <3>1, <4>1, <4>2, SMT
    <3> QED BY <1>4, <3>2, <3>3, <3>4
  <2>2. PICK to \in {"prepare", "run", "fail", "unload_opposite", "attach_again"} : Go(p, to) \/ GoFault(p, to)
    BY <2>1
  <2> QED BY <1>0, <1>1, <1>3, <2>1, <2>2, TypesMove
<1>5. CASE detach_get_id(p)
  <2>1. UNCHANGED <<link, removed>>
    BY <1>5 DEF detach_get_id, kernel
  <2>2. CASE curr_prog_id' = [curr_prog_id EXCEPT ![p] = get_xdp_id] /\ Go(p, AfterId(cmd[p].expected, get_xdp_id))
    <3>1. get_xdp_id \in 0 .. runs
      BY <1>0 DEF get_xdp_id, Slots
    <3>2. /\ curr_prog_id' \in [Procs -> 0 .. runs] /\ curr_prog_id'[p] = get_xdp_id
          /\ \A q \in Procs \ {p} : curr_prog_id'[q] = curr_prog_id[q]
      BY <1>0, <2>2, <3>1
    <3>3. PICK to : to = AfterId(cmd[p].expected, get_xdp_id)
      OBVIOUS
    <3>4. to \in {"ok", "fail", "detach"} /\ (to = "detach" => curr_prog_id'[p] # 0)
      BY <3>2, <3>3 DEF AfterId
    <3>5. Go(p, to)
      BY <2>2, <3>3
    <3> QED BY <1>0, <1>1, <1>3, <2>1, <3>2, <3>4, <3>5, TypesMove
  <2>3. CASE GoFault(p, "fail") /\ UNCHANGED curr_prog_id
    BY <1>0, <1>1, <1>3, <2>1, <2>3, TypesMove
  <2> QED BY <1>5, <2>2, <2>3 DEF detach_get_id
<1>6. CASE detach_set(p)
  <2>1. UNCHANGED curr_prog_id /\ pc[p] = "detach"
    BY <1>6 DEF detach_set, local
  <2>2. PICK after : /\ after = [a \in Answers |-> IF a = "0" THEN "ok" ELSE "fail"]
                     /\ bpf_set_link_xdp_fd(p, 0, cfg[p].mode, cfg[p].noexist, after)
    BY <1>6 DEF detach_set
  <2>3. \A a \in Answers : after[a] \in {"ok", "fail"}
    BY <2>2
  <2>4. 0 \in 0 .. runs
    BY <1>0, SMT
  <2>5. link' \in [Slots -> 0 .. runs] /\ \E to \in {"ok", "fail"} : Go(p, to) \/ GoFault(p, to)
    BY <1>2, <1>3, <2>2, <2>3, <2>4, SMT
  <2>6. removed' \subseteq 1 .. runs
    <3>1. curr_prog_id[p] \in 0 .. runs /\ curr_prog_id[p] # 0
      BY <1>0, <2>1 DEF TypeInv
    <3>2. curr_prog_id[p] \in 1 .. runs
      BY <1>0, <3>1, SMT
    <3>3. removed' = removed \/ removed' = removed \cup {curr_prog_id[p]}
      BY <1>6 DEF detach_set
    <3> QED BY <1>0, <3>2, <3>3
  <2>7. PICK to \in {"ok", "fail"} : Go(p, to) \/ GoFault(p, to)
    BY <2>5
  <2> QED BY <1>0, <1>1, <1>3, <2>1, <2>5, <2>6, <2>7, TypesMove
<1> QED BY <1>4, <1>5, <1>6

\* Pinning, unpinning and filling tx_port keep the types.
LEMMA TypesPin ==
  ASSUME TypeInv, PinInv, NEW p \in Procs,
         pin_prepare(p) \/ bpf_object__pin_maps(p) \/ err_unpin_maps(p) \/ fill_tx_port(p)
  PROVE  TypeInv'
<1>0. /\ link \in [Slots -> 0 .. runs] /\ pinned \in [Names -> Fds] /\ filled \subseteq Fds
      /\ removed \subseteq 1 .. runs /\ stuck \in BOOLEAN /\ curr_prog_id \in [Procs -> 0 .. runs]
      /\ i \in [Procs -> 0 .. Len(Declared) + 1] /\ DOMAIN obj = Procs
      /\ run \in [Procs -> 0 .. runs] /\ runs \in Nat /\ Closed \in Fds
  BY BoundsAssumption, SMT DEF TypeInv, TypeOK, Fds
<1>1. UNCHANGED <<link, cmd, run, obj, curr_prog_id, removed>>
  BY DEF pin_prepare, bpf_object__pin_maps, err_unpin_maps, fill_tx_port, local
<1>2. {"pin", "rollback", "run", "fail"} \subseteq Labels
  BY DEF Labels, Resting
<1>3. /\ pc[p] \in {"pin", "rollback"} => HasMaps(p) /\ run[p] # 0
      /\ pc[p] = "pin" => i[p] \in 1 .. Len(Declared) + 1
      /\ pc[p] = "rollback" => i[p] \in 0 .. Len(Declared)
  BY DEF PinInv, Placed, Resting
<1>4. \A k \in DOMAIN Declared : HasMaps(p) /\ run[p] # 0 =>
         obj[p].maps[k].name \in Names /\ obj[p].maps[k].fd \in Fds
  <2> SUFFICES ASSUME NEW k \in DOMAIN Declared, HasMaps(p), run[p] # 0
               PROVE  obj[p].maps[k].name \in Names /\ obj[p].maps[k].fd \in Fds
    OBVIOUS
  <2>1. obj[p].maps[k].name = Declared[k] /\ obj[p].maps[k].fd = [run |-> run[p], name |-> Declared[k]]
    BY DEF HasMaps
  <2>2. Declared[k] \in Names /\ run[p] \in 1 .. runs
    BY <1>0, SMT DEF Names
  <2> QED BY <2>1, <2>2, SMT DEF Fds
<1>5. Len(Declared) \in Nat /\ DOMAIN Declared = 1 .. Len(Declared)
  BY Positions
<1>6. CASE pin_prepare(p)
  <2>1. UNCHANGED <<filled, i, stuck>> /\ Go(p, "pin") /\ pinned' = unpin_maps(obj[p])
    BY <1>6 DEF pin_prepare, local
  <2>2. pinned' \in [Names -> Fds]
    BY <1>0, <2>1 DEF unpin_maps
  <2> QED BY <1>0, <1>1, <1>2, <2>1, <2>2, TypesMove
<1>7. CASE bpf_object__pin_maps(p)
  <2>1. UNCHANGED <<filled, stuck>> /\ pc[p] = "pin" /\ i[p] \in DOMAIN obj[p].maps
    BY <1>7 DEF bpf_object__pin_maps
  <2>2. i[p] \in DOMAIN Declared
    BY <1>3, <2>1 DEF HasMaps
  <2>3. obj[p].maps[i[p]].name \in Names /\ obj[p].maps[i[p]].fd \in Fds
    BY <1>3, <1>4, <2>1, <2>2
  <2>4. PICK v \in {i[p] + 1, i[p] - 1} : i' = [i EXCEPT ![p] = v]
    BY <1>7 DEF bpf_object__pin_maps, PinFails
  <2>5. v \in 0 .. Len(Declared) + 1
    BY <1>5, <2>2, SMT
  <2>6. pinned' \in [Names -> Fds]
    BY <1>0, <1>7, <2>3 DEF bpf_object__pin_maps, PinFails
  <2>7. PICK to \in {"pin", "rollback"} : Go(p, to) \/ GoFault(p, to)
    BY <1>7 DEF bpf_object__pin_maps, PinFails
  <2>8. i' \in [Procs -> 0 .. Len(Declared) + 1] /\ \A q \in Procs \ {p} : i'[q] = i[q]
    BY <1>0, <2>4, <2>5
  <2> QED BY <1>0, <1>1, <1>2, <2>1, <2>6, <2>7, <2>8, TypesMove
<1>8. CASE err_unpin_maps(p)
  <2>1. UNCHANGED filled /\ pc[p] = "rollback" /\ i[p] > 0 /\ i' = [i EXCEPT ![p] = i[p] - 1]
    BY <1>8 DEF err_unpin_maps
  <2>2. i[p] \in DOMAIN Declared /\ i[p] - 1 \in 0 .. Len(Declared) + 1
    BY <1>3, <1>5, <2>1, SMT
  <2>3. pinned' \in [Names -> Fds] /\ stuck' \in BOOLEAN
    <3>1. \/ pinned' = [pinned EXCEPT ![obj[p].maps[i[p]].name] = Closed] /\ UNCHANGED stuck
          \/ UNCHANGED pinned /\ stuck' = TRUE
      BY <1>8 DEF err_unpin_maps
    <3> QED BY <1>0, <3>1
  <2>4. Go(p, "rollback") \/ GoFault(p, "rollback")
    BY <1>8 DEF err_unpin_maps
  <2>5. i' \in [Procs -> 0 .. Len(Declared) + 1] /\ \A q \in Procs \ {p} : i'[q] = i[q]
    BY <1>0, <2>1, <2>2
  <2> QED BY <1>0, <1>1, <1>2, <2>1, <2>3, <2>4, <2>5, TypesMove
<1>9. CASE fill_tx_port(p)
  <2>1. UNCHANGED <<pinned, i, stuck>> /\ pc[p] \in {"pin", "rollback"}
    BY <1>9 DEF fill_tx_port, local
  <2>2. tx_port(obj[p]) = 0 \/ tx_port(obj[p]) \in DOMAIN Declared
    BY <1>3, <2>1 DEF tx_port, bpf_map__next, HasMaps
  <2>3. filled' \subseteq Fds
    <3>1. PICK k : k = tx_port(obj[p])
      OBVIOUS
    <3>2. k # 0 => obj[p].maps[k].fd \in Fds
      BY <1>3, <1>4, <2>1, <2>2, <3>1
    <3>3. filled' = filled \/ (k # 0 /\ filled' = filled \cup {obj[p].maps[k].fd})
      BY <1>9, <3>1 DEF fill_tx_port
    <3> QED BY <1>0, <3>2, <3>3
  <2>4. PICK to \in {"run", "fail"} : Go(p, to) \/ GoFault(p, to)
    BY <1>9 DEF fill_tx_port
  <2> QED BY <1>0, <1>1, <1>2, <2>1, <2>3, <2>4, TypesMove
<1> QED BY <1>6, <1>7, <1>8, <1>9

\* A start and a crash keep the types.
LEMMA TypesStart ==
  ASSUME TypeInv, NEW p \in Procs, main(p) \/ Crash(p)
  PROVE  TypeInv'
<1>0. /\ native \in BOOLEAN /\ file \in Files /\ stuck \in BOOLEAN /\ runs \in 0 .. MaxRuns /\ faults \in 0 .. MaxFaults
      /\ link \in [Slots -> 0 .. runs] /\ pinned \in [Names -> Fds] /\ filled \subseteq Fds
      /\ removed \subseteq 1 .. runs /\ curr_prog_id \in [Procs -> 0 .. runs]
      /\ i \in [Procs -> 0 .. Len(Declared) + 1] /\ DOMAIN obj = Procs
      /\ run \in [Procs -> 0 .. runs] /\ runs \in Nat /\ cmd \in [Procs -> Commands]
      /\ pc \in [Procs -> Labels] /\ clean \in [Procs -> BOOLEAN]
  BY BoundsAssumption, SMT DEF TypeInv, TypeOK, Labels, Attaching
<1>1. /\ UNCHANGED <<native, file, stuck, faults, link, pinned, filled, removed>>
      /\ \E v \in {0, 1} : i' = [i EXCEPT ![p] = v]
      /\ obj' = [obj EXCEPT ![p] = NULL]
      /\ curr_prog_id' = [curr_prog_id EXCEPT ![p] = 0]
      /\ \E v \in 0 .. runs' : run' = [run EXCEPT ![p] = v]
      /\ \E c \in Commands : cmd' = [cmd EXCEPT ![p] = c]
      /\ \E to \in Labels \ {"reuse", "detach"} : pc' = [pc EXCEPT ![p] = to] /\ (to = "open" => i'[p] = 1)
      /\ clean' \in [Procs -> BOOLEAN]
      /\ runs' \in {runs, runs + 1} /\ runs' <= MaxRuns
  <2>1. CASE main(p)
    <3>1. /\ UNCHANGED <<native, file, stuck, faults, link, pinned, filled, removed>>
          /\ obj' = [obj EXCEPT ![p] = NULL]
          /\ curr_prog_id' = [curr_prog_id EXCEPT ![p] = 0]
          /\ i' = [i EXCEPT ![p] = 1] /\ run' = [run EXCEPT ![p] = runs'] /\ runs < MaxRuns /\ runs' = runs + 1
      BY <2>1 DEF main, fixed, kernel
    <3>2. PICK c, parsed : /\ c \in Commands /\ cmd' = [cmd EXCEPT ![p] = c]
                           /\ pc' = [pc EXCEPT ![p] = Begin(c, parsed)]
      BY <2>1 DEF main
    <3>3. Begin(c, parsed) \in Labels \ {"reuse", "detach"}
      BY DEF Begin, Labels, Resting, Attaching
    <3>4. clean' \in [Procs -> BOOLEAN]
      BY <2>1 DEF main
    <3>5. runs' \in 0 .. runs' /\ runs' <= MaxRuns /\ i'[p] = 1
      BY <1>0, <3>1, BoundsAssumption, SMT
    <3> QED BY <3>1, <3>2, <3>3, <3>4, <3>5
  <2>2. CASE Crash(p)
    <3>1. /\ UNCHANGED <<native, file, stuck, faults, link, pinned, filled, removed, runs>>
          /\ obj' = [obj EXCEPT ![p] = NULL]
          /\ curr_prog_id' = [curr_prog_id EXCEPT ![p] = 0]
          /\ i' = [i EXCEPT ![p] = 0] /\ run' = [run EXCEPT ![p] = 0]
          /\ pc' = [pc EXCEPT ![p] = "off"] /\ clean' = [clean EXCEPT ![p] = FALSE]
      BY <2>2 DEF Crash, fixed, kernel
    <3>2. \E c \in Commands : cmd' = [cmd EXCEPT ![p] = c]
      BY <2>2, CommandsAssumption DEF Crash
    <3>3. "off" \in Labels \ {"reuse", "detach"} /\ 0 \in 0 .. runs' /\ runs' <= MaxRuns
      BY <1>0, <3>1, BoundsAssumption, SMT DEF Labels, Resting
    <3> QED BY <1>0, <3>1, <3>2, <3>3
  <2> QED BY <2>1, <2>2
<1>2. /\ Fds \subseteq Fds' /\ 0 .. runs \subseteq 0 .. runs' /\ 1 .. runs \subseteq 1 .. runs'
      /\ runs' \in 0 .. MaxRuns
  BY <1>1, FdsGrow DEF TypeInv
<1>3. link' \in [Slots -> 0 .. runs'] /\ pinned' \in [Names -> Fds'] /\ filled' \subseteq Fds' /\ removed' \subseteq 1 .. runs'
  BY <1>0, <1>1, <1>2
<1>4. /\ run' \in [Procs -> 0 .. runs'] /\ cmd' \in [Procs -> Commands] /\ pc' \in [Procs -> Labels]
      /\ DOMAIN obj' = Procs
  BY <1>0, <1>1, <1>2, SMT
<1>5. 0 \in 0 .. runs' /\ 0 \in 0 .. Len(Declared) + 1 /\ 1 \in 0 .. Len(Declared) + 1
  BY <1>0, <1>1, Positions, SMT
<1>6. curr_prog_id' \in [Procs -> 0 .. runs']
  BY <1>0, <1>1, <1>2, <1>5
<1>7. i' \in [Procs -> 0 .. Len(Declared) + 1]
  BY <1>0, <1>1, <1>5, SMT
<1>8. TypeOK'
  BY <1>0, <1>1, <1>2, <1>3, <1>4, <1>6, <1>7, SMT DEF TypeOK, Labels, Attaching
<1>9. \A q \in Procs : Reusing(q)' /\ (pc'[q] = "detach" => curr_prog_id'[q] # 0)
  <2> SUFFICES ASSUME NEW q \in Procs
               PROVE  Reusing(q)' /\ (pc'[q] = "detach" => curr_prog_id'[q] # 0)
    OBVIOUS
  <2>1. CASE q = p
    <3>1. pc'[p] \notin {"reuse", "detach"} /\ (pc'[p] = "open" => i'[p] = 1)
      BY <1>0, <1>1
    <3> QED BY <2>1, <3>1 DEF Reusing
  <2>2. CASE q # p
    <3>1. pc'[q] = pc[q] /\ i'[q] = i[q] /\ obj'[q] = obj[q] /\ curr_prog_id'[q] = curr_prog_id[q]
      BY <1>0, <1>1, <2>2
    <3>2. Reusing(q) /\ (pc[q] = "detach" => curr_prog_id[q] # 0)
      BY DEF TypeInv
    <3> QED BY <3>1, <3>2 DEF Reusing
  <2> QED BY <2>1, <2>2
<1> QED BY <1>4, <1>8, <1>9 DEF TypeInv

\* The types hold, with the objects that are being put together.
THEOREM TypeInvariant == Spec => []TypeInv
<1>1. Init => TypeInv
  <2> SUFFICES ASSUME Init PROVE TypeInv
    OBVIOUS
  <2>1. /\ native \in BOOLEAN /\ file \in Files /\ link = [s \in Slots |-> 0] /\ pinned = [n \in Names |-> Closed]
        /\ filled = {} /\ removed = {} /\ stuck = FALSE /\ runs = 0 /\ faults = 0
        /\ pc = [p \in Procs |-> "off"] /\ run = [p \in Procs |-> 0]
        /\ obj = [p \in Procs |-> NULL] /\ i = [p \in Procs |-> 0]
        /\ curr_prog_id = [p \in Procs |-> 0] /\ clean = [p \in Procs |-> FALSE]
    BY DEF Init
  <2>2. cmd \in [Procs -> Commands]
    BY CommandsAssumption DEF Init
  <2>3. Closed \in Fds /\ "off" \in Resting /\ 0 \in 0 .. Len(Declared) + 1 /\ 0 \in 0 .. MaxRuns /\ 0 \in 0 .. MaxFaults
    BY Positions, BoundsAssumption, SMT DEF Fds, Resting
  <2>4. TypeOK
    <3>1. link \in [Slots -> 0 .. runs] /\ pinned \in [Names -> Fds] /\ filled \subseteq Fds /\ removed \subseteq 1 .. runs
      BY <2>1, <2>3, SMT
    <3>2. pc \in [Procs -> Resting] /\ run \in [Procs -> 0 .. runs] /\ curr_prog_id \in [Procs -> 0 .. runs]
      BY <2>1, <2>3, SMT
    <3>3. i \in [Procs -> 0 .. Len(Declared) + 1] /\ clean \in [Procs -> BOOLEAN]
      BY <2>1, <2>3
    <3>4. pc \in [Procs -> Labels]
      BY <3>2 DEF Labels
    <3> QED BY <2>1, <2>2, <2>3, <3>1, <3>3, <3>2, <3>4 DEF TypeOK, Labels, Attaching
  <2>5. \A p \in Procs : Reusing(p) /\ (pc[p] = "detach" => curr_prog_id[p] # 0)
    BY <2>1 DEF Reusing
  <2> QED BY <2>1, <2>4, <2>5 DEF TypeInv
<1>2. TypeInv /\ PinInv /\ [Next]_vars => TypeInv'
  <2> SUFFICES ASSUME TypeInv, PinInv, [Next]_vars PROVE TypeInv'
    OBVIOUS
  <2>1. CASE UNCHANGED vars
    BY <2>1 DEF vars, fixed, kernel, local, TypeInv, TypeOK, Reusing, Fds
  <2>2. ASSUME NEW p \in Procs, Step(p) PROVE TypeInv'
    BY <2>2, TypesLoad, TypesLink, TypesPin DEF Step
  <2> QED BY <2>1, <2>2, TypesStart DEF Next
<1> QED BY <1>1, <1>2, PinInvariant, PTL DEF Spec

\* The type of every variable: a run's programs and maps never appear before
\* the run, and a detach reports only a program that it has seen.
THEOREM Typing == Spec => []TypeOK
<1>1. TypeInv => TypeOK
  BY DEF TypeInv
<1> QED BY <1>1, TypeInvariant, PTL

----------------------------------------------------------------------------
(***************************************************************************)
(* What a start of a process ends with: maps of one run when it takes them *)
(* from pins, and its program on the interface when nothing disturbs it.   *)
(***************************************************************************)

\* The process shares its maps: a caller of the library with reuse_maps.
Sharing(p) == cmd[p].front = "common" /\ cfg[p].reuse_maps

\* The maps that p has taken are still the ones at the pins.
Kept(p) ==
  \A k \in DOMAIN Declared :
    (pc[p] = "reuse" /\ k < i[p]) \/ (pc[p] \in Attaching /\ Sharing(p)) =>
      pinned[Declared[k]] # Closed /\ obj[p].maps[k].fd = pinned[Declared[k]]

ReuseInv ==
  /\ \A p \in Procs : /\ pc[p] \in {"open", "reuse"} => Sharing(p)
                      /\ pc[p] = "load" => ~ Sharing(p)
                      /\ pc[p] \in Attaching /\ Sharing(p) => DOMAIN obj[p].maps = DOMAIN Declared
  /\ faults = 0 => ~ stuck /\ \A p \in Procs : (pc[p] = "rollback" => i[p] = 0) /\ Kept(p)

\* What is pinned stays pinned as long as no system call fails: nothing is
\* called map_name, and a rollback has nothing to take back.
LEMMA PinsStay ==
  ASSUME ReuseInv, TypeInv, PinInv, NEW p \in Procs, main(p) \/ Step(p) \/ Crash(p), faults' = 0
  PROVE  /\ faults = 0 /\ ~ stuck'
         /\ \A n \in Names : pinned[n] # Closed => pinned'[n] = pinned[n]
<1>1. faults = 0
  <2>1. faults' = faults \/ faults' = faults + 1
    BY DEF main, Step, Crash, load_bpf_object_file, open_bpf_object, reuse_maps, load_bpf_object_file_reuse_maps,
           LoadInto, OpenFails, attach_first, unload_opposite, attach_again, detach_get_id, detach_set,
           bpf_set_link_xdp_fd, pin_prepare, bpf_object__pin_maps, PinFails, err_unpin_maps, fill_tx_port, Go, GoFault
  <2>2. faults \in Nat
    BY BoundsAssumption, SMT DEF TypeInv, TypeOK
  <2> QED BY <2>1, <2>2, SMT
<1>2. ~ stuck /\ (pc[p] = "rollback" => i[p] = 0)
  BY <1>1 DEF ReuseInv
<1>3. ~ err_unpin_maps(p)
  BY <1>2, SMT DEF err_unpin_maps
<1>4. CASE bpf_object__pin_maps(p)
  <2>1. UNCHANGED stuck
    BY <1>4 DEF bpf_object__pin_maps
  <2>2. CASE PinFails(p)
    BY <1>1, <1>2, <2>1, <2>2 DEF PinFails
  <2>3. CASE \E n : pinned[n] = Closed /\ \E fd : pinned' = [pinned EXCEPT ![n] = fd]
    BY <1>1, <1>2, <2>1, <2>3 DEF TypeInv, TypeOK
  <2> QED BY <1>4, <2>2, <2>3 DEF bpf_object__pin_maps
<1>5. CASE pin_prepare(p)
  <2>1. map_name \notin Names
    BY NamesAssumption DEF map_name, Names
  <2> QED BY <1>1, <1>2, <1>5, <2>1 DEF pin_prepare, unpin_maps
<1>6. CASE ~ bpf_object__pin_maps(p) /\ ~ pin_prepare(p)
  <2>1. UNCHANGED <<pinned, stuck>>
    BY <1>3, <1>6 DEF main, Step, Crash, load_bpf_object_file, open_bpf_object, reuse_maps,
           load_bpf_object_file_reuse_maps, attach_first, unload_opposite, attach_again, detach_get_id, detach_set,
           fill_tx_port, kernel
  <2> QED BY <1>1, <1>2, <2>1
<1> QED BY <1>4, <1>5, <1>6

\* What has to be shown of the process that takes a step.
Reuses(p) ==
  /\ pc[p] \in {"open", "reuse"} => Sharing(p)
  /\ pc[p] = "load" => ~ Sharing(p)
  /\ pc[p] \in Attaching /\ Sharing(p) => DOMAIN obj[p].maps = DOMAIN Declared

\* A step of p keeps the invariant if it keeps it for p.
LEMMA ReuseMove ==
  ASSUME ReuseInv, TypeInv, PinInv, NEW p \in Procs, main(p) \/ Step(p) \/ Crash(p),
         \A q \in Procs \ {p} : /\ pc'[q] = pc[q] /\ i'[q] = i[q] /\ obj'[q] = obj[q]
                               /\ cmd'[q] = cmd[q] /\ cfg'[q] = cfg[q],
         Reuses(p)', faults' = 0 => (pc'[p] = "rollback" => i'[p] = 0) /\ Kept(p)'
  PROVE  ReuseInv'
<1>1. ASSUME NEW q \in Procs PROVE Reuses(q)'
  BY <1>1 DEF ReuseInv, Reuses, Sharing
<1>2. ASSUME faults' = 0 PROVE ~ stuck' /\ \A q \in Procs : (pc'[q] = "rollback" => i'[q] = 0) /\ Kept(q)'
  <2>1. faults = 0 /\ ~ stuck' /\ \A n \in Names : pinned[n] # Closed => pinned'[n] = pinned[n]
    BY <1>2, PinsStay
  <2>2. ASSUME NEW q \in Procs \ {p} PROVE (pc'[q] = "rollback" => i'[q] = 0) /\ Kept(q)'
    <3>1. (pc[q] = "rollback" => i[q] = 0) /\ Kept(q)
      BY <2>1 DEF ReuseInv
    <3>2. \A k \in DOMAIN Declared : Declared[k] \in Names
      BY Positions
    <3>3. Sharing(q)' <=> Sharing(q)
      BY DEF Sharing
    <3> QED BY <2>1, <3>1, <3>2, <3>3 DEF Kept
  <2> QED BY <1>2, <2>1, <2>2
<1> QED BY <1>1, <1>2 DEF ReuseInv, Reuses

\* Steps after which p neither takes maps from the pins nor attaches.
LEMMA ReuseAway ==
  ASSUME NEW p \in Procs, pc'[p] \notin Attaching \cup {"open", "reuse", "load", "rollback"}
  PROVE  Reuses(p)' /\ (faults' = 0 => (pc'[p] = "rollback" => i'[p] = 0) /\ Kept(p)')
<1>1. \A k \in DOMAIN Declared : ~ ((pc'[p] = "reuse" /\ k < i'[p]) \/ (pc'[p] \in Attaching /\ Sharing(p)'))
  OBVIOUS
<1>2. Kept(p)'
  BY <1>1 DEF Kept
<1> QED BY <1>2 DEF Reuses

\* main and Crash.
LEMMA ReuseStart ==
  ASSUME ReuseInv, TypeInv, PinInv, LinkInv, NEW p \in Procs, main(p) \/ Crash(p)
  PROVE  ReuseInv'
<1>1. DOMAIN pc = Procs /\ DOMAIN i = Procs /\ DOMAIN obj = Procs /\ DOMAIN cmd = Procs /\ DOMAIN cfg = Procs
  BY DEF TypeInv, TypeOK, LinkInv
<1>2. \A q \in Procs \ {p} : /\ pc'[q] = pc[q] /\ i'[q] = i[q] /\ obj'[q] = obj[q]
                            /\ cmd'[q] = cmd[q] /\ cfg'[q] = cfg[q]
  BY <1>1 DEF main, Crash
<1>3. Reuses(p)' /\ (faults' = 0 => (pc'[p] = "rollback" => i'[p] = 0) /\ Kept(p)')
  <2>1. CASE main(p)
    <3>1. PICK c, parsed : /\ c \in Commands /\ cmd' = [cmd EXCEPT ![p] = c] /\ cfg' = [cfg EXCEPT ![p] = parsed]
                           /\ pc' = [pc EXCEPT ![p] = Begin(c, parsed)]
      BY <2>1 DEF main
    <3>2. cmd'[p] = c /\ cfg'[p] = parsed /\ pc'[p] = Begin(c, parsed)
      BY <1>1, <3>1
    <3>3. Sharing(p)' <=> c.front = "common" /\ parsed.reuse_maps
      BY <3>2 DEF Sharing
    <3>4. /\ pc'[p] \in {"fail", "get_id", "open", "load"}
          /\ pc'[p] = "open" => Sharing(p)'
          /\ pc'[p] = "load" => ~ Sharing(p)'
      BY <3>2, <3>3 DEF Begin
    <3>5. Kept(p)'
      BY <3>4 DEF Kept, Attaching
    <3> QED BY <3>4, <3>5 DEF Reuses, Attaching
  <2>2. CASE Crash(p)
    <3>1. pc'[p] = "off"
      BY <1>1, <2>2 DEF Crash
    <3>2. pc'[p] \notin Attaching \cup {"open", "reuse", "load", "rollback"}
      BY <3>1 DEF Attaching
    <3> QED BY <3>2, ReuseAway
  <2> QED BY <2>1, <2>2
<1> QED BY <1>2, <1>3, ReuseMove

\* Opening the object, taking its maps from the pins, and loading it.
LEMMA ReuseLoad ==
  ASSUME ReuseInv, TypeInv, PinInv, LinkInv, NEW p \in Procs,
         load_bpf_object_file(p) \/ open_bpf_object(p) \/ reuse_maps(p) \/ load_bpf_object_file_reuse_maps(p)
  PROVE  Reuses(p)' /\ (faults' = 0 => (pc'[p] = "rollback" => i'[p] = 0) /\ Kept(p)')
<1>1. DOMAIN pc = Procs /\ DOMAIN i = Procs /\ DOMAIN obj = Procs /\ UNCHANGED <<cmd, cfg, run, pinned>>
  BY DEF TypeInv, TypeOK, load_bpf_object_file, open_bpf_object, reuse_maps, load_bpf_object_file_reuse_maps, kernel
<1>2. Sharing(p)' <=> Sharing(p)
  BY <1>1 DEF Sharing
<1>3. Reuses(p) /\ Reusing(p)
  BY DEF ReuseInv, Reuses, TypeInv
<1>4. CASE pc'[p] = "fail"
  BY <1>4, ReuseAway DEF Attaching
<1>5. \A to : Go(p, to) \/ GoFault(p, to) => pc'[p] = to
  BY <1>1 DEF Go, GoFault
<1>6. CASE load_bpf_object_file(p)
  <2>1. pc'[p] \in {"fail", "attach"} /\ pc[p] = "load"
    BY <1>5, <1>6 DEF load_bpf_object_file, LoadInto, OpenFails
  <2>2. ~ Sharing(p)'
    BY <1>2, <1>3, <2>1 DEF Reuses
  <2>3. CASE pc'[p] = "attach"
    BY <2>2, <2>3 DEF Reuses, Kept, Attaching
  <2> QED BY <1>4, <2>1, <2>3
<1>7. CASE open_bpf_object(p)
  <2>1. pc'[p] \in {"fail", "reuse"} /\ pc[p] = "open" /\ UNCHANGED i
    BY <1>5, <1>7 DEF open_bpf_object, OpenFails
  <2>2. Sharing(p)' /\ i'[p] = 1
    BY <1>2, <1>3, <2>1 DEF Reuses, Reusing
  <2>3. CASE pc'[p] = "reuse"
    <3>1. \A k \in DOMAIN Declared : ~ (k < i'[p])
      BY <2>2, Positions, SMT
    <3> QED BY <2>2, <2>3, <3>1 DEF Reuses, Kept, Attaching
  <2> QED BY <1>4, <2>1, <2>3
<1>8. CASE pc[p] = "reuse"
  <2>1. PICK o, n : o = obj[p] /\ n = i[p]
    OBVIOUS
  <2>2. /\ o \in OpenObject /\ DOMAIN o.maps = DOMAIN Declared /\ n \in 1 .. Len(Declared) + 1
        /\ \A k \in DOMAIN Declared : o.maps[k].name = Declared[k]
    BY <1>3, <1>8, <2>1 DEF Reusing
  <2>3. Sharing(p)'
    BY <1>2, <1>3, <1>8 DEF Reuses
  <2>4. faults' = 0 => \A k \in DOMAIN Declared : k < n => pinned[Declared[k]] # Closed /\ o.maps[k].fd = pinned[Declared[k]]
    <3> SUFFICES ASSUME faults' = 0
                 PROVE  \A k \in DOMAIN Declared : k < n =>
                          pinned[Declared[k]] # Closed /\ o.maps[k].fd = pinned[Declared[k]]
      OBVIOUS
    <3>1. Step(p)
      BY DEF Step
    <3>2. faults = 0
      BY <3>1, PinsStay
    <3>3. Kept(p)
      BY <3>2 DEF ReuseInv
    <3> QED BY <1>8, <2>1, <3>3 DEF Kept
  <2>5. CASE reuse_maps(p) /\ pc'[p] # "fail"
    <3>1. PICK fd : fd = pinned[o.maps[n].name]
      OBVIOUS
    <3>2. /\ n \in DOMAIN Declared /\ fd # Closed /\ obj' = [obj EXCEPT ![p].maps[n].fd = fd]
          /\ i' = [i EXCEPT ![p] = n + 1] /\ pc'[p] = "reuse"
      BY <1>5, <2>1, <2>2, <2>5, <3>1 DEF reuse_maps
    <3>3. fd = pinned[Declared[n]] /\ fd \in [run : Nat, name : STRING]
      <4>1. fd = pinned[Declared[n]] /\ Declared[n] \in Names
        BY <2>2, <3>1, <3>2, Positions
      <4>2. fd \in Fds
        BY <4>1 DEF TypeInv, TypeOK
      <4>3. \A x \in Names : x \in STRING
        BY NamesAssumption, SMT DEF Names
      <4>4. runs \in Nat
        BY BoundsAssumption, SMT DEF TypeInv, TypeOK
      <4> QED BY <3>2, <4>1, <4>2, <4>3, <4>4, SMT DEF Fds
    <3>4. PICK new : new = [o EXCEPT !.maps = [o.maps EXCEPT ![n] = [o.maps[n] EXCEPT !.fd = fd]]]
      OBVIOUS
    <3>5. obj'[p] = new
      BY <1>1, <2>1, <3>2, <3>4
    <3>6. \A k \in DOMAIN Declared : new.maps[k].fd = IF k = n THEN fd ELSE o.maps[k].fd
      BY <2>2, <3>2, <3>3, <3>4, ReuseTypes, SMT
    <3>7. i'[p] = n + 1 /\ n \in Int
      BY <1>1, <2>2, <3>2, SMT
    <3>8. ASSUME faults' = 0 PROVE Kept(p)'
      <4> SUFFICES ASSUME NEW k \in DOMAIN Declared, k < n + 1
                   PROVE  pinned[Declared[k]] # Closed /\ obj'[p].maps[k].fd = pinned[Declared[k]]
        BY <1>1, <3>2, <3>7 DEF Kept, Attaching
      <4>1. k = n \/ k < n
        BY <3>7, Positions, SMT
      <4> QED BY <2>4, <3>2, <3>3, <3>5, <3>6, <3>8, <4>1
    <3> QED BY <2>3, <3>2, <3>8 DEF Reuses, Attaching
  <2>6. CASE load_bpf_object_file_reuse_maps(p) /\ pc'[p] # "fail"
    <3>1. /\ n \notin DOMAIN Declared /\ obj' = [obj EXCEPT ![p] = bpf_object__load(o, run[p], 0)] /\ pc'[p] = "attach"
      BY <1>5, <2>1, <2>2, <2>6 DEF load_bpf_object_file_reuse_maps, LoadInto
    <3>2. PICK m : /\ bpf_object__load(o, run[p], 0).maps = m
                   /\ DOMAIN m = DOMAIN Declared
                   /\ \A k \in DOMAIN Declared : o.maps[k].fd # Closed => m[k].fd = o.maps[k].fd
      <4>1. PICK r : r = run[p]
        OBVIOUS
      <4>2. \E m : /\ bpf_object__load(o, r, 0).maps = m
                   /\ DOMAIN m = DOMAIN o.maps
                   /\ \A k \in DOMAIN o.maps :
                        /\ m[k].name = o.maps[k].name
                        /\ m[k].fd = IF o.maps[k].fd = Closed THEN [run |-> r, name |-> o.maps[k].name] ELSE o.maps[k].fd
        <5>1. o \in OpenObject
          BY <2>2
        <5> QED BY <5>1, LoadMaps, SMT
      <4>3. PICK m : /\ bpf_object__load(o, r, 0).maps = m
                     /\ DOMAIN m = DOMAIN o.maps
                     /\ \A k \in DOMAIN o.maps : o.maps[k].fd # Closed => m[k].fd = o.maps[k].fd
        BY <4>2
      <4> QED BY <2>2, <4>1, <4>3
    <3>3. obj'[p].maps = m
      BY <1>1, <3>1, <3>2
    <3>4. \A k \in DOMAIN Declared : k < n
      BY <2>2, <3>1, Positions, SMT
    <3>5. ASSUME faults' = 0 PROVE Kept(p)'
      <4>1. \A k \in DOMAIN Declared : pinned[Declared[k]] # Closed /\ obj'[p].maps[k].fd = pinned[Declared[k]]
        BY <2>4, <3>2, <3>3, <3>4, <3>5
      <4> QED BY <1>1, <4>1 DEF Kept
    <3> QED BY <2>3, <3>1, <3>2, <3>3, <3>5 DEF Reuses, Attaching
  <2> QED BY <1>4, <1>8, <2>5, <2>6 DEF load_bpf_object_file, open_bpf_object
<1> QED BY <1>6, <1>7, <1>8 DEF reuse_maps, load_bpf_object_file_reuse_maps

\* Attaching and pinning.
LEMMA ReuseRest ==
  ASSUME ReuseInv, TypeInv, PinInv, LinkInv, NEW p \in Procs,
         \/ attach_first(p) \/ unload_opposite(p) \/ attach_again(p) \/ detach_get_id(p) \/ detach_set(p)
         \/ pin_prepare(p) \/ bpf_object__pin_maps(p) \/ err_unpin_maps(p) \/ fill_tx_port(p)
  PROVE  Reuses(p)' /\ (faults' = 0 => (pc'[p] = "rollback" => i'[p] = 0) /\ Kept(p)')
<1>1. DOMAIN pc = Procs /\ DOMAIN i = Procs /\ UNCHANGED <<cmd, cfg, run, obj>>
  BY DEF TypeInv, TypeOK, attach_first, unload_opposite, attach_again, detach_get_id, detach_set, pin_prepare,
         bpf_object__pin_maps, err_unpin_maps, fill_tx_port, local
<1>2. Sharing(p)' <=> Sharing(p)
  BY <1>1 DEF Sharing
<1>3. \A to : Go(p, to) \/ GoFault(p, to) => pc'[p] = to
  BY <1>1 DEF Go, GoFault
<1>4. CASE attach_first(p) \/ unload_opposite(p) \/ attach_again(p) \/ detach_set(p)
  <2>1. pc[p] \in Attaching \/ detach_set(p)
    BY <1>4 DEF attach_first, unload_opposite, attach_again, Attaching
  <2>2. UNCHANGED pinned
    BY <1>4 DEF attach_first, unload_opposite, attach_again, detach_set
  <2>3. ASSUME NEW prog, NEW mode, NEW noexist, NEW after, bpf_set_link_xdp_fd(p, prog, mode, noexist, after)
        PROVE  \E a \in Answers : pc'[p] = after[a]
    <3>1. Verdict(prog, mode, noexist) \in Answers /\ "EIO" \in Answers
      BY DEF Verdict, Answers
    <3> QED BY <1>3, <2>3, <3>1 DEF bpf_set_link_xdp_fd
  <2>4. /\ pc'[p] \in {"prepare", "run", "fail", "ok", "unload_opposite", "attach_again"}
        /\ detach_set(p) => pc'[p] \in {"ok", "fail"}
    <3>1. CASE attach_first(p)
      <4>1. PICK after : /\ after = [a \in Answers |-> AfterFirst(p, a)]
                         /\ bpf_set_link_xdp_fd(p, run[p], cfg[p].mode, cfg[p].noexist, after)
        BY <3>1 DEF attach_first
      <4>2. \A a \in Answers : after[a] \in {"prepare", "run", "fail", "unload_opposite"}
        BY <4>1 DEF AfterFirst, Attached
      <4>3. ~ detach_set(p)
        BY <3>1 DEF attach_first, detach_set
      <4> QED BY <2>3, <4>1, <4>2, <4>3, SMT
    <3>2. CASE unload_opposite(p)
      <4>1. PICK after, no : /\ after = [a \in Answers |-> AfterUnload(p, a)] /\ no = FALSE
                             /\ bpf_set_link_xdp_fd(p, 0, Opposite(cfg[p].mode), no, after)
        BY <3>2 DEF unload_opposite
      <4>2. \A a \in Answers : after[a] \in {"attach_again", "fail"}
        BY <4>1 DEF AfterUnload
      <4>3. ~ detach_set(p)
        BY <3>2 DEF unload_opposite, detach_set
      <4> QED BY <2>3, <4>1, <4>2, <4>3, SMT
    <3>3. CASE attach_again(p)
      <4>1. PICK after, no : /\ after = [a \in Answers |-> IF a = "0" THEN Attached(p) ELSE "fail"] /\ no = FALSE
                             /\ bpf_set_link_xdp_fd(p, run[p], cfg[p].mode, no, after)
        BY <3>3 DEF attach_again
      <4>2. \A a \in Answers : after[a] \in {"prepare", "run", "fail"}
        BY <4>1 DEF Attached
      <4>3. ~ detach_set(p)
        BY <3>3 DEF attach_again, detach_set
      <4> QED BY <2>3, <4>1, <4>2, <4>3, SMT
    <3>4. CASE detach_set(p)
      <4>1. PICK after : /\ after = [a \in Answers |-> IF a = "0" THEN "ok" ELSE "fail"]
                         /\ bpf_set_link_xdp_fd(p, 0, cfg[p].mode, cfg[p].noexist, after)
        BY <3>4 DEF detach_set
      <4>2. \A a \in Answers : after[a] \in {"ok", "fail"}
        BY <4>1
      <4> QED BY <2>3, <4>1, <4>2, SMT
    <3> QED BY <1>4, <3>1, <3>2, <3>3, <3>4
  <2>5. CASE pc'[p] \notin Attaching
    BY <2>4, <2>5, ReuseAway
  <2>6. CASE pc'[p] \in Attaching
    <3>1. pc[p] \in Attaching
      BY <2>1, <2>4, <2>6 DEF Attaching
    <3>2. Reuses(p)'
      BY <1>1, <1>2, <2>6, <3>1 DEF ReuseInv, Reuses, Attaching
    <3>3. ASSUME faults' = 0 PROVE Kept(p)'
      <4>1. Step(p)
        BY DEF Step
      <4>2. faults = 0
        BY <3>3, <4>1, PinsStay
      <4>3. Kept(p)
        BY <4>2 DEF ReuseInv
      <4>4. \A k \in DOMAIN Declared : Sharing(p) =>
              pinned[Declared[k]] # Closed /\ obj[p].maps[k].fd = pinned[Declared[k]]
        BY <3>1, <4>3 DEF Kept
      <4>5. pc'[p] # "reuse"
        BY <2>4
      <4> QED BY <1>1, <1>2, <2>2, <4>4, <4>5 DEF Kept
    <3> QED BY <2>4, <3>2, <3>3
  <2> QED BY <2>5, <2>6
<1>5. CASE detach_get_id(p) \/ pin_prepare(p) \/ fill_tx_port(p)
  <2>1. \A expected, id : AfterId(expected, id) \in {"ok", "fail", "detach"}
    BY DEF AfterId
  <2>2. pc'[p] \in {"ok", "fail", "detach", "pin", "run"}
    BY <1>3, <1>5, <2>1 DEF detach_get_id, pin_prepare, fill_tx_port
  <2>3. pc'[p] \notin Attaching \cup {"open", "reuse", "load", "rollback"}
    BY <2>2 DEF Attaching
  <2> QED BY <2>3, ReuseAway
<1>6. CASE bpf_object__pin_maps(p) \/ err_unpin_maps(p)
  <2>1. pc'[p] \in {"pin", "rollback"}
    BY <1>3, <1>6 DEF bpf_object__pin_maps, PinFails, err_unpin_maps
  <2>2. Reuses(p)' /\ Kept(p)'
    BY <2>1 DEF Reuses, Kept, Attaching
  <2>3. ASSUME faults' = 0, pc'[p] = "rollback" PROVE i'[p] = 0
    <3>1. Step(p)
      BY <1>6 DEF Step
    <3>2. faults = 0
      BY <2>3, <3>1, PinsStay
    <3>3. ~ stuck /\ (pc[p] = "rollback" => i[p] = 0) /\ faults' # faults + 1
      BY <2>3, <3>2, SMT DEF ReuseInv
    <3>4. bpf_object__pin_maps(p) /\ PinFails(p)
      <4>1. bpf_object__pin_maps(p)
        BY <1>6, <3>3, SMT DEF err_unpin_maps
      <4>2. ~ Go(p, "pin")
        BY <1>3, <2>3
      <4> QED BY <4>1, <4>2 DEF bpf_object__pin_maps
    <3>5. pinned[obj[p].maps[i[p]].name] # Closed /\ i' = [i EXCEPT ![p] = i[p] - 1]
      BY <3>3, <3>4 DEF PinFails, GoFault
    <3>6. HasMaps(p) /\ i[p] \in 1 .. Len(Declared) + 1 /\ (i[p] > 1 => Owns(p, i[p] - 1))
      BY <3>3, <3>4 DEF PinInv, Placed, Pinning, bpf_object__pin_maps
    <3>7. i[p] \in DOMAIN Declared /\ pinned[Declared[i[p]]] # Closed
      BY <3>4, <3>5, <3>6 DEF HasMaps, bpf_object__pin_maps
    <3>8. ~ (i[p] > 1)
      BY <3>6, <3>7, SMT DEF Owns
    <3> QED BY <1>1, <3>5, <3>6, <3>8, SMT
  <2> QED BY <2>2, <2>3
<1> QED BY <1>4, <1>5, <1>6

\* The maps taken from the pins stay the ones at the pins until a system call
\* fails.
THEOREM ReuseInvariant == Spec => []ReuseInv
<1>1. Init => ReuseInv
  BY DEF Init, ReuseInv, Kept, Sharing, Attaching
<1>2. ReuseInv /\ TypeInv /\ PinInv /\ LinkInv /\ [Next]_vars => ReuseInv'
  <2> SUFFICES ASSUME ReuseInv, TypeInv, PinInv, LinkInv, [Next]_vars PROVE ReuseInv'
    OBVIOUS
  <2>1. CASE UNCHANGED vars
    BY <2>1 DEF vars, fixed, kernel, local, ReuseInv, Sharing, Kept
  <2>2. ASSUME NEW p \in Procs, Step(p) PROVE ReuseInv'
    <3>1. DOMAIN pc = Procs /\ DOMAIN i = Procs /\ DOMAIN obj = Procs
      BY DEF TypeInv, TypeOK
    <3>2. UNCHANGED <<cmd, cfg>> /\ \A q \in Procs \ {p} : i'[q] = i[q] /\ obj'[q] = obj[q]
      BY <2>2, <3>1 DEF Step, load_bpf_object_file, open_bpf_object, reuse_maps, load_bpf_object_file_reuse_maps,
           LoadInto, OpenFails, attach_first, unload_opposite, attach_again, detach_get_id, detach_set,
           pin_prepare, bpf_object__pin_maps, PinFails, err_unpin_maps, fill_tx_port, local
    <3>3. \E to : pc' = [pc EXCEPT ![p] = to]
      BY <2>2 DEF Step, load_bpf_object_file, open_bpf_object, reuse_maps, load_bpf_object_file_reuse_maps,
           LoadInto, OpenFails, attach_first, unload_opposite, attach_again, detach_get_id, detach_set,
           bpf_set_link_xdp_fd, pin_prepare, bpf_object__pin_maps, PinFails, err_unpin_maps, fill_tx_port, Go, GoFault
    <3>4. \A q \in Procs \ {p} : pc'[q] = pc[q]
      BY <3>1, <3>3
    <3>5. Reuses(p)' /\ (faults' = 0 => (pc'[p] = "rollback" => i'[p] = 0) /\ Kept(p)')
      BY <2>2, ReuseLoad, ReuseRest DEF Step
    <3> QED BY <2>2, <3>2, <3>4, <3>5, ReuseMove
  <2> QED BY <2>1, <2>2, ReuseStart DEF Next
<1> QED BY <1>1, <1>2, TypeInvariant, PinInvariant, LinkInvariant, PTL DEF Spec

\* reuse_maps opens one pin after the other, and others pin meanwhile; as
\* long as no system call fails, the maps it ends up with are of one run.
THEOREM ReuseStaysTogether == Spec => []ReusedTogether
<1>1. ReuseInv /\ PinInv => ReusedTogether
  <2> SUFFICES ASSUME ReuseInv, PinInv, NEW p \in Procs, faults = 0, pc[p] \in {"attach", "attach_again"},
                      cfg[p].reuse_maps, cmd[p].front = "common",
                      NEW k \in DOMAIN obj[p].maps, NEW l \in DOMAIN obj[p].maps
               PROVE  obj[p].maps[k].fd.run = obj[p].maps[l].fd.run
    BY DEF ReusedTogether
  <2>1. Sharing(p) /\ pc[p] \in Attaching
    BY DEF Sharing, Attaching
  <2>2. k \in DOMAIN Declared /\ l \in DOMAIN Declared /\ k \in Int /\ l \in Int
    BY <2>1, Positions DEF ReuseInv
  <2>3. \A j \in DOMAIN Declared : pinned[Declared[j]] # Closed /\ obj[p].maps[j].fd = pinned[Declared[j]]
    BY <2>1 DEF ReuseInv, Kept
  <2>4. PinnedPrefix
    BY DEF ReuseInv, PinInv
  <2>5. pinned[Declared[k]].run = pinned[Declared[l]].run
    BY <2>2, <2>3, <2>4, SMT DEF PinnedPrefix
  <2> QED BY <2>2, <2>3, <2>5
<1> QED BY <1>1, ReuseInvariant, PinInvariant, PTL

----------------------------------------------------------------------------
(***************************************************************************)
(* A start that nothing disturbs.                                          *)
(***************************************************************************)

\* The driver can do what the mode asks for.
Supported(p) == cfg[p].mode = "drv" => native

\* What p's requests have made of the interface, if nothing disturbed it.
Undisturbed(p) ==
  /\ pc[p] = "unload_opposite" => Supported(p) /\ link[Other(Slot(cfg[p].mode))] # 0
  /\ pc[p] = "attach_again" => Supported(p) /\ link[Other(Slot(cfg[p].mode))] = 0
  /\ pc[p] \in {"prepare", "pin", "rollback", "run"} =>
       link = [s \in Slots |-> IF s = Slot(cfg[p].mode) THEN run[p] ELSE 0]
  /\ pc[p] = "run" /\ cmd[p].front = "main" => [run |-> run[p], name |-> "tx_port"] \in filled
  /\ pc[p] = "fail" /\ cfg[p].exit = 0 /\ ~cfg[p].noexist /\ ~cfg[p].do_unload /\ i[p] = 1 /\ ~cfg[p].reuse_maps
       => cfg[p].ifindex = -1 \/ ~ Supported(p)

AttachInv ==
  /\ ~ native => link["drv"] = 0
  /\ \A p \in Procs : cfg[p].mode \in {"auto", "drv", "skb"} /\ (clean[p] => Undisturbed(p))

\* A call fails or does not fail.
LEMMA OneWay ==
  ASSUME TypeInv, NEW p, NEW to PROVE ~ (Go(p, to) /\ GoFault(p, to))
<1>1. faults \in Nat
  BY BoundsAssumption, SMT DEF TypeInv, TypeOK
<1>2. Go(p, to) => faults' = faults
  BY DEF Go
<1>3. GoFault(p, to) => faults' = faults + 1
  BY DEF GoFault
<1> QED BY <1>1, <1>2, <1>3, SMT

\* A step of p keeps the invariant if it keeps it for p and the driver's slot.
LEMMA AttachMove ==
  ASSUME AttachInv, TypeInv, NEW p \in Procs, NEW to, Go(p, to) \/ GoFault(p, to), UNCHANGED cfg,
         ~ native => link'["drv"] = 0,
         clean[p] /\ Go(p, to) => Undisturbed(p)'
  PROVE  AttachInv'
<1>1. UNCHANGED native
  BY DEF Go, GoFault, fixed
<1>2. \A q \in Procs : clean'[q] => q = p /\ clean[p] /\ Go(p, to)
  <2>1. CASE Go(p, to)
    BY <2>1 DEF Go
  <2>2. CASE GoFault(p, to)
    BY <2>2 DEF GoFault
  <2> QED BY <2>1, <2>2
<1> QED BY <1>1, <1>2 DEF AttachInv

\* A driver without XDP gets no program.
LEMMA NativeOnly ==
  ASSUME NEW p, NEW prog, NEW mode \in {"auto", "drv", "skb"}, NEW noexist, NEW after,
         bpf_set_link_xdp_fd(p, prog, mode, noexist, after), ~ native => link["drv"] = 0, DOMAIN link = Slots
  PROVE  ~ native => link'["drv"] = 0
<1> SUFFICES ASSUME ~ native PROVE link'["drv"] = 0
  OBVIOUS
<1>1. CASE mode = "drv"
  <2>1. Verdict(prog, mode, noexist) = "EOPNOTSUPP"
    BY <1>1 DEF Verdict
  <2>2. link' = link
    BY <2>1 DEF bpf_set_link_xdp_fd
  <2> QED BY <2>2
<1>2. CASE mode # "drv"
  <2>1. Slot(mode) = "skb"
    BY <1>2 DEF Slot
  <2>2. link' = link \/ link' = [link EXCEPT !["skb"] = prog]
    BY <2>1 DEF bpf_set_link_xdp_fd
  <2> QED BY <2>2 DEF Slots
<1> QED BY <1>1, <1>2

\* main and Crash: parse_user ends with an error or names an interface.
LEMMA AttachStart ==
  ASSUME AttachInv, TypeInv, LinkInv, NEW p \in Procs, main(p) \/ Crash(p)
  PROVE  AttachInv'
<1>1. DOMAIN pc = Procs /\ DOMAIN i = Procs /\ DOMAIN cmd = Procs /\ DOMAIN cfg = Procs /\ DOMAIN run = Procs
      /\ DOMAIN clean = Procs
  BY DEF TypeInv, TypeOK, LinkInv
<1>2. UNCHANGED <<native, link, filled>>
  BY DEF main, Crash, fixed, kernel
<1>3. CASE main(p)
  <2>1. PICK c, parsed : /\ c \in Commands /\ parsed = parse_user(default_cfg, c.opts)
                         /\ cmd' = [cmd EXCEPT ![p] = c] /\ cfg' = [cfg EXCEPT ![p] = parsed]
                         /\ pc' = [pc EXCEPT ![p] = Begin(c, parsed)]
    BY <1>3 DEF main
  <2>2. cmd'[p] = c /\ cfg'[p] = parsed /\ pc'[p] = Begin(c, parsed)
    BY <1>1, <2>1
  <2>3. parsed.mode \in {"auto", "drv", "skb"}
    BY <2>1, CommandsAssumption
  <2>4. \A q \in Procs : cfg'[q].mode \in {"auto", "drv", "skb"}
    BY <1>1, <2>1, <2>3 DEF AttachInv
  <2>5. Undisturbed(p)'
    <3>1. /\ pc'[p] \in {"fail", "get_id", "open", "load"}
          /\ pc'[p] = "fail" => cfg'[p].exit # 0 \/ cfg'[p].ifindex = -1
      BY <2>2 DEF Begin
    <3> QED BY <3>1 DEF Undisturbed
  <2>6. \A q \in Procs : clean'[q] => q = p
    BY <1>3 DEF main
  <2> QED BY <1>2, <2>4, <2>5, <2>6 DEF AttachInv
<1>4. CASE Crash(p)
  <2>1. default_cfg.mode \in {"auto", "drv", "skb"}
    BY DEF default_cfg
  <2>2. \A q \in Procs : cfg'[q].mode \in {"auto", "drv", "skb"}
    BY <1>1, <1>4, <2>1 DEF AttachInv, Crash
  <2>3. ASSUME NEW q \in Procs, clean'[q] PROVE Undisturbed(q)'
    <3>1. q # p /\ clean[q]
      BY <1>1, <1>4, <2>3 DEF Crash
    <3>2. pc'[q] = pc[q] /\ i'[q] = i[q] /\ cmd'[q] = cmd[q] /\ cfg'[q] = cfg[q] /\ run'[q] = run[q]
      BY <1>1, <1>4, <3>1 DEF Crash
    <3>3. Undisturbed(q)
      BY <3>1 DEF AttachInv
    <3>4. (Supported(q)' <=> Supported(q)) /\ (Slot(cfg[q].mode)' = Slot(cfg[q].mode))
      BY <1>2, <3>2 DEF Supported, Slot
    <3> QED BY <1>2, <3>2, <3>3, <3>4 DEF Undisturbed
  <2> QED BY <1>2, <2>2, <2>3 DEF AttachInv
<1> QED BY <1>3, <1>4

\* Loading: it fails undisturbed only for want of a pin.
LEMMA AttachLoad ==
  ASSUME AttachInv, TypeInv, ReuseInv, NEW p \in Procs,
         load_bpf_object_file(p) \/ open_bpf_object(p) \/ reuse_maps(p) \/ load_bpf_object_file_reuse_maps(p)
  PROVE  AttachInv'
<1>1. UNCHANGED <<cfg, cmd, link>> /\ DOMAIN pc = Procs
  BY DEF load_bpf_object_file, open_bpf_object, reuse_maps, load_bpf_object_file_reuse_maps, kernel, TypeInv, TypeOK
<1>2. PICK to \in {"reuse", "attach", "fail"} :
        /\ Go(p, to) \/ GoFault(p, to)
        /\ Go(p, to) /\ to = "fail" => pc[p] = "reuse"
  <2>1. CASE load_bpf_object_file(p)
    <3>1. PICK o : o = bpf_object__open(file, TRUE, 0)
      OBVIOUS
    <3>2. find_program_by_title(o, "xdp_filter") # {}
      BY <3>1, FilesAssumption DEF TypeInv, TypeOK
    <3>3. Go(p, "attach") \/ GoFault(p, "fail")
      BY <2>1, <3>1, <3>2 DEF load_bpf_object_file, LoadInto, OpenFails
    <3>4. ~ (Go(p, "fail") /\ GoFault(p, "fail"))
      BY OneWay
    <3> QED BY <3>3, <3>4
  <2>2. CASE open_bpf_object(p)
    <3>1. Go(p, "reuse") \/ GoFault(p, "fail")
      BY <2>2 DEF open_bpf_object, OpenFails
    <3>2. ~ (Go(p, "fail") /\ GoFault(p, "fail"))
      BY OneWay
    <3> QED BY <3>1, <3>2
  <2>3. CASE reuse_maps(p) \/ load_bpf_object_file_reuse_maps(p)
    BY <2>3 DEF reuse_maps, load_bpf_object_file_reuse_maps, LoadInto
  <2> QED BY <2>1, <2>2, <2>3
<1>3. ASSUME Go(p, to) PROVE Undisturbed(p)'
  <2>1. pc'[p] = to
    BY <1>1, <1>3 DEF Go
  <2>2. to = "fail" => cfg[p].reuse_maps
    BY <1>2, <1>3 DEF ReuseInv, Sharing
  <2> QED BY <1>1, <2>1, <2>2 DEF Undisturbed
<1>4. ~ native => link'["drv"] = 0
  BY <1>1 DEF AttachInv
<1> QED BY <1>1, <1>2, <1>3, <1>4, AttachMove

\* Slots and modes.
LEMMA SlotModes ==
  ASSUME NEW mode \in {"auto", "drv", "skb"}
  PROVE  /\ Slot(mode) \in Slots /\ Other(Slot(mode)) \in Slots /\ Other(Slot(mode)) # Slot(mode)
         /\ \A s \in Slots : s = Slot(mode) \/ s = Other(Slot(mode))
BY DEF Slot, Other, Slots

\* xdp_link_attach: the three requests.
LEMMA AttachLink ==
  ASSUME AttachInv, TypeInv, PinInv, NEW p \in Procs, attach_first(p) \/ unload_opposite(p) \/ attach_again(p)
  PROVE  AttachInv'
<1>1. /\ UNCHANGED <<cfg, cmd, run, i>> /\ DOMAIN pc = Procs /\ DOMAIN link = Slots
      /\ run[p] # 0
  BY DEF attach_first, unload_opposite, attach_again, local, TypeInv, TypeOK, PinInv, Placed, Resting
<1>2. PICK mode : mode = cfg[p].mode /\ mode \in {"auto", "drv", "skb"}
  BY DEF AttachInv
<1>3. ~ native => link["drv"] = 0
  BY DEF AttachInv
<1>4. \A to : Go(p, to) => pc'[p] = to /\ UNCHANGED native
  BY <1>1 DEF Go, fixed
<1>5. ASSUME NEW to, Go(p, to), to \in {"prepare", "run"},
             link' = [link EXCEPT ![Slot(mode)] = run[p]], link[Other(Slot(mode))] = 0, to = Attached(p)
      PROVE  Undisturbed(p)'
  <2>1. Slot(mode)' = Slot(mode)
    BY <1>4, <1>5, SMT DEF Slot
  <2>2. link' = [s \in Slots |-> IF s = Slot(mode) THEN run[p] ELSE 0]
    BY <1>1, <1>2, <1>5, SlotModes
  <2>3. to = "run" => cmd[p].front # "main"
    BY <1>5 DEF Attached
  <2>4. pc'[p] = to
    BY <1>4, <1>5
  <2>5. link' = [s \in Slots |-> IF s = Slot(cfg[p].mode)' THEN run'[p] ELSE 0]
    BY <1>1, <1>2, <2>1, <2>2
  <2> QED BY <1>1, <1>5, <2>3, <2>4, <2>5 DEF Undisturbed
<1>6. CASE attach_first(p)
  <2>1. PICK no, answer, to, io :
          /\ no = cfg[p].noexist /\ answer = Verdict(run[p], mode, no)
          /\ to = AfterFirst(p, answer) /\ io = AfterFirst(p, "EIO")
          /\ \/ Go(p, to) /\ link' = IF answer = "0" THEN [link EXCEPT ![Slot(mode)] = run[p]] ELSE link
             \/ GoFault(p, io)
    <3>1. Verdict(run[p], cfg[p].mode, cfg[p].noexist) \in Answers /\ "EIO" \in Answers
      BY DEF Verdict, Answers
    <3> QED BY <1>2, <1>6, <3>1 DEF attach_first, bpf_set_link_xdp_fd
  <2>2. ~ native => link'["drv"] = 0
    <3>1. PICK after : bpf_set_link_xdp_fd(p, run[p], mode, cfg[p].noexist, after)
      BY <1>2, <1>6 DEF attach_first
    <3> QED BY <1>1, <1>2, <1>3, <3>1, NativeOnly
  <2>3. CASE GoFault(p, io)
    <3>1. ~ Go(p, io)
      BY <2>3, OneWay
    <3> QED BY <1>1, <2>2, <2>3, <3>1, AttachMove
  <2>4. CASE Go(p, to) /\ link' = IF answer = "0" THEN [link EXCEPT ![Slot(mode)] = run[p]] ELSE link
    <3>1. CASE answer = "0"
      <4>1. to = Attached(p) /\ to \in {"prepare", "run"}
        BY <2>1, <3>1 DEF AfterFirst, Attached
      <4>2. link[Other(Slot(mode))] = 0
        BY <1>1, <2>1, <3>1 DEF Verdict
      <4>3. Undisturbed(p)'
        BY <1>5, <2>4, <3>1, <4>1, <4>2
      <4> QED BY <1>1, <2>2, <2>4, <4>3, AttachMove
    <3>2. CASE answer # "0" /\ to = "unload_opposite"
      <4>1. answer = "EEXIST"
        BY <2>1, <3>2 DEF AfterFirst
      <4>2. (mode = "drv" => native) /\ link[Other(Slot(mode))] # 0
        BY <2>1, <4>1 DEF Verdict
      <4>3. pc'[p] = "unload_opposite" /\ link' = link /\ UNCHANGED native
        BY <1>4, <2>4, <3>2
      <4>4. Supported(p)' /\ (link[Other(Slot(cfg[p].mode))] # 0)'
        BY <1>1, <1>2, <4>2, <4>3 DEF Supported, Slot
      <4>5. Undisturbed(p)'
        BY <4>3, <4>4 DEF Undisturbed
      <4> QED BY <1>1, <2>2, <2>4, <4>5, AttachMove
    <3>3. CASE answer # "0" /\ to # "unload_opposite"
      <4>1. to = "fail" /\ (answer = "EEXIST" => cfg[p].noexist)
        BY <2>1, <3>3 DEF AfterFirst
      <4>2. ~ cfg[p].noexist => mode = "drv" /\ ~ native
        BY <2>1, <3>3, <4>1 DEF Verdict
      <4>3. pc'[p] = "fail" /\ UNCHANGED native
        BY <1>4, <2>4, <4>1
      <4>4. Undisturbed(p)'
        BY <1>1, <1>2, <4>2, <4>3 DEF Undisturbed, Supported
      <4> QED BY <1>1, <2>2, <2>4, <4>4, AttachMove
    <3> QED BY <3>1, <3>2, <3>3
  <2> QED BY <2>1, <2>3, <2>4

<1>7. CASE unload_opposite(p)
  <2>1. PICK answer, to, io :
          /\ answer = Verdict(0, Opposite(mode), FALSE) /\ to = AfterUnload(p, answer) /\ io = AfterUnload(p, "EIO")
          /\ \/ Go(p, to) /\ link' = IF answer = "0" THEN [link EXCEPT ![Slot(Opposite(mode))] = 0] ELSE link
             \/ GoFault(p, io)
    <3>1. Verdict(0, Opposite(cfg[p].mode), FALSE) \in Answers /\ "EIO" \in Answers
      BY DEF Verdict, Answers
    <3> QED BY <1>2, <1>7, <3>1 DEF unload_opposite, bpf_set_link_xdp_fd
  <2>2. ~ native => link'["drv"] = 0
    <3>1. PICK after, no : no = FALSE /\ bpf_set_link_xdp_fd(p, 0, Opposite(mode), no, after)
      BY <1>2, <1>7 DEF unload_opposite
    <3>2. Opposite(mode) \in {"auto", "drv", "skb"}
      BY DEF Opposite
    <3> QED BY <1>1, <1>3, <3>1, <3>2, NativeOnly
  <2>3. CASE GoFault(p, io)
    <3>1. ~ Go(p, io)
      BY <2>3, OneWay
    <3> QED BY <1>1, <2>2, <2>3, <3>1, AttachMove
  <2>4. CASE Go(p, to) /\ link' = IF answer = "0" THEN [link EXCEPT ![Slot(Opposite(mode))] = 0] ELSE link
    <3>1. ASSUME clean[p] PROVE Undisturbed(p)'
      <4>1. (mode = "drv" => native) /\ link[Other(Slot(mode))] # 0
        BY <1>2, <1>7, <3>1 DEF AttachInv, Undisturbed, Supported, unload_opposite
      <4>2. Slot(Opposite(mode)) = Other(Slot(mode)) /\ (Opposite(mode) = "drv" => native)
        BY <1>2, <1>3, <4>1 DEF Slot, Other, Opposite
      <4>3. answer = "0" /\ to = "attach_again"
        BY <2>1, <4>2 DEF Verdict, AfterUnload
      <4>4. pc'[p] = "attach_again" /\ UNCHANGED native /\ link'[Other(Slot(mode))] = 0
        BY <1>1, <1>2, <1>4, <2>4, <4>2, <4>3, SlotModes
      <4>5. Supported(p)' /\ (link[Other(Slot(cfg[p].mode))] = 0)'
        BY <1>1, <1>2, <4>1, <4>4 DEF Supported, Slot
      <4> QED BY <4>4, <4>5 DEF Undisturbed
    <3> QED BY <1>1, <2>2, <2>4, <3>1, AttachMove
  <2> QED BY <2>1, <2>3, <2>4
<1>8. CASE attach_again(p)
  <2>1. PICK answer, to :
          /\ answer = Verdict(run[p], mode, FALSE) /\ to = IF answer = "0" THEN Attached(p) ELSE "fail"
          /\ \/ Go(p, to) /\ link' = IF answer = "0" THEN [link EXCEPT ![Slot(mode)] = run[p]] ELSE link
             \/ GoFault(p, "fail")
    <3>1. Verdict(run[p], cfg[p].mode, FALSE) \in Answers /\ "EIO" \in Answers
      BY DEF Verdict, Answers
    <3> QED BY <1>2, <1>8, <3>1 DEF attach_again, bpf_set_link_xdp_fd
  <2>2. ~ native => link'["drv"] = 0
    <3>1. PICK after, no : no = FALSE /\ bpf_set_link_xdp_fd(p, run[p], mode, no, after)
      BY <1>2, <1>8 DEF attach_again
    <3> QED BY <1>1, <1>2, <1>3, <3>1, NativeOnly
  <2>3. CASE GoFault(p, "fail")
    <3>1. ~ Go(p, "fail")
      BY <2>3, OneWay
    <3> QED BY <1>1, <2>2, <2>3, <3>1, AttachMove
  <2>4. CASE Go(p, to) /\ link' = IF answer = "0" THEN [link EXCEPT ![Slot(mode)] = run[p]] ELSE link
    <3>1. ASSUME clean[p] PROVE Undisturbed(p)'
      <4>1. (mode = "drv" => native) /\ link[Other(Slot(mode))] = 0
        BY <1>2, <1>8, <3>1 DEF AttachInv, Undisturbed, Supported, attach_again
      <4>2. answer = "0"
        BY <2>1, <4>1 DEF Verdict
      <4>3. to = Attached(p) /\ to \in {"prepare", "run"}
        BY <2>1, <4>2 DEF Attached
      <4> QED BY <1>5, <2>4, <4>1, <4>2, <4>3
    <3> QED BY <1>1, <2>2, <2>4, <3>1, AttachMove
  <2> QED BY <2>1, <2>3, <2>4
<1> QED BY <1>6, <1>7, <1>8

\* xdp_link_detach is only reached with --unload.
LEMMA AttachDetach ==
  ASSUME AttachInv, TypeInv, LinkInv, NEW p \in Procs, detach_get_id(p) \/ detach_set(p)
  PROVE  AttachInv'
<1>1. UNCHANGED cfg /\ cfg[p].do_unload /\ DOMAIN pc = Procs /\ DOMAIN link = Slots
  BY DEF detach_get_id, detach_set, local, LinkInv
<1>2. PICK to \in {"ok", "fail", "detach"} : Go(p, to) \/ GoFault(p, to)
  <2>1. \A expected, id : AfterId(expected, id) \in {"ok", "fail", "detach"}
    BY DEF AfterId
  <2>2. CASE detach_get_id(p)
    BY <2>1, <2>2 DEF detach_get_id
  <2>3. CASE detach_set(p)
    <3>1. Verdict(0, cfg[p].mode, cfg[p].noexist) \in Answers /\ "EIO" \in Answers
      BY DEF Verdict, Answers
    <3> QED BY <2>3, <3>1 DEF detach_set, bpf_set_link_xdp_fd
  <2> QED BY <2>2, <2>3
<1>3. ~ native => link'["drv"] = 0
  <2>1. CASE detach_get_id(p)
    BY <2>1 DEF detach_get_id, kernel, AttachInv
  <2>2. CASE detach_set(p)
    <3>1. PICK after : bpf_set_link_xdp_fd(p, 0, cfg[p].mode, cfg[p].noexist, after)
      BY <2>2 DEF detach_set
    <3> QED BY <1>1, <3>1, NativeOnly DEF AttachInv
  <2> QED BY <2>1, <2>2
<1>4. ASSUME Go(p, to) PROVE Undisturbed(p)'
  <2>1. pc'[p] = to
    BY <1>1, <1>4 DEF Go
  <2> QED BY <1>1, <1>2, <2>1 DEF Undisturbed
<1> QED BY <1>1, <1>2, <1>3, <1>4, AttachMove

\* Pinning leaves the interface alone, and main's map by position is tx_port.
LEMMA AttachPin ==
  ASSUME AttachInv, TypeInv, PinInv, NEW p \in Procs,
         pin_prepare(p) \/ bpf_object__pin_maps(p) \/ err_unpin_maps(p) \/ fill_tx_port(p)
  PROVE  AttachInv'
<1>1. UNCHANGED <<cfg, cmd, run, obj, link>> /\ DOMAIN pc = Procs
  BY DEF pin_prepare, bpf_object__pin_maps, err_unpin_maps, fill_tx_port, local, TypeInv, TypeOK
<1>2. pc[p] \in {"prepare", "pin", "rollback"} /\ HasMaps(p)
  BY DEF pin_prepare, bpf_object__pin_maps, err_unpin_maps, fill_tx_port, PinInv, Placed
<1>3. tx_port(obj[p]) = 4
  <2>1. {1, 2, 3, 4} \subseteq DOMAIN obj[p].maps
    <3>1. Len(Declared) \in Nat /\ 4 <= Len(Declared) /\ DOMAIN obj[p].maps = 1 .. Len(Declared)
      BY <1>2, Positions, NamesAssumption, SMT DEF HasMaps
    <3> QED BY <3>1, SMT
  <2> QED BY <2>1, SMT DEF tx_port, bpf_map__next
<1>4. obj[p].maps[4].fd = [run |-> run[p], name |-> "tx_port"]
  BY <1>2, NamesAssumption DEF HasMaps
<1>5. PICK to \in {"pin", "rollback", "run"} :
        /\ Go(p, to) \/ GoFault(p, to)
        /\ Go(p, to) /\ to = "run" => [run |-> run[p], name |-> "tx_port"] \in filled'
  <2>1. CASE pin_prepare(p) \/ bpf_object__pin_maps(p) \/ err_unpin_maps(p)
    BY <2>1 DEF pin_prepare, bpf_object__pin_maps, PinFails, err_unpin_maps
  <2>2. CASE fill_tx_port(p)
    <3>1. ~ (Go(p, "run") /\ GoFault(p, "run"))
      BY OneWay
    <3>2. \/ Go(p, "run") /\ filled' = filled \cup {obj[p].maps[4].fd}
          \/ GoFault(p, "run")
      BY <1>3, <2>2, SMT DEF fill_tx_port
    <3> QED BY <1>4, <3>1, <3>2
  <2> QED BY <2>1, <2>2
<1>6. ASSUME clean[p], Go(p, to) PROVE Undisturbed(p)'
  <2>1. pc'[p] = to /\ UNCHANGED native
    BY <1>1, <1>6 DEF Go, fixed
  <2>2. link = [s \in Slots |-> IF s = Slot(cfg[p].mode) THEN run[p] ELSE 0]
    BY <1>2, <1>6 DEF AttachInv, Undisturbed
  <2>3. link' = [s \in Slots |-> IF s = Slot(cfg[p].mode)' THEN run'[p] ELSE 0]
    BY <1>1, <2>1, <2>2 DEF Slot
  <2> QED BY <1>1, <1>5, <1>6, <2>1, <2>3 DEF Undisturbed
<1>7. ~ native => link'["drv"] = 0
  BY <1>1 DEF AttachInv
<1> QED BY <1>1, <1>5, <1>6, <1>7, AttachMove

\* What the requests of an undisturbed process have made of the interface.
THEOREM AttachInvariant == Spec => []AttachInv
<1>1. Init => AttachInv
  BY SMT DEF Init, AttachInv, default_cfg, Slots
<1>2. AttachInv /\ TypeInv /\ PinInv /\ LinkInv /\ ReuseInv /\ [Next]_vars => AttachInv'
  <2> SUFFICES ASSUME AttachInv, TypeInv, PinInv, LinkInv, ReuseInv, [Next]_vars PROVE AttachInv'
    OBVIOUS
  <2>1. CASE UNCHANGED vars
    <3>1. UNCHANGED <<native, link, filled, pc, cmd, cfg, run, i, clean>>
      BY <2>1 DEF vars, fixed, kernel, local
    <3>2. \A p \in Procs : Undisturbed(p) => Undisturbed(p)'
      BY <3>1, SMT DEF Undisturbed, Supported, Slot, Other
    <3> QED BY <3>1, <3>2 DEF AttachInv
  <2>2. ASSUME NEW p \in Procs, Step(p) PROVE AttachInv'
    BY <2>2, AttachLoad, AttachLink, AttachDetach, AttachPin DEF Step
  <2> QED BY <2>1, <2>2, AttachStart DEF Next
<1> QED BY <1>1, <1>2, TypeInvariant, PinInvariant, LinkInvariant, ReuseInvariant, PTL DEF Spec

\* xdp_link_attach with --force takes the program of the other type off and
\* tries again: undisturbed it fails only in native mode without a driver.
THEOREM ForceWorks == Spec => []ForceSucceeds
<1>1. AttachInv => ForceSucceeds
  BY DEF AttachInv, Undisturbed, Supported, ForceSucceeds
<1> QED BY <1>1, AttachInvariant, PTL

\* A process that gets to its loop undisturbed has its program, and no other,
\* on the interface, and the redirect target in the map called tx_port.
THEOREM LoopIsAttached == Spec => []RunsAttached
<1>1. AttachInv => RunsAttached
  BY DEF AttachInv, Undisturbed, RunsAttached
<1> QED BY <1>1, AttachInvariant, PTL
=============================================================================
