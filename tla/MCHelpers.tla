----------------------------- MODULE MCHelpers -----------------------------
(***************************************************************************)
(* The parts that are functions of their input: the command line, opening  *)
(* and loading an object file, the packet helpers, and the arithmetic of   *)
(* MCFixedPoint.  A behaviour is about one of them: an option is added to  *)
(* the command line, a next object is looked at, a packet helper is        *)
(* called, or two operands change places.                                  *)
(***************************************************************************)
EXTENDS MCFixedPoint, Packets, Params, BpfObject

VARIABLES
  topic,        \* which of the four
  opts,         \* the command line
  o             \* an object file, how it is loaded, and the pins it finds

vars == <<topic, opts, o, packet, x, y>>

(***************************************************************************)
(* Command lines of up to four options that concern modes and devices.     *)
(***************************************************************************)

MCDevices == [d \in {"eth0"} |-> 3]
MCTooLong == {"averylongdevicename"}
MaxOpts == 4

Options ==
  {[opt |-> l, arg |-> ""] : l \in {"A", "S", "N", "F", "c", "z", "M", "?"}}
    \cup {[opt |-> "d", arg |-> n] : n \in {"eth0", "nosuch", "averylongdevicename"}}

AddOption ==
  /\ topic = "options"
  /\ Len(opts) < MaxOpts
  /\ \E new \in Options : opts' = Append(opts, new)
  /\ UNCHANGED <<topic, o, packet, x, y>>

\* Copy mode and zero-copy mode exclude each other in what parse_cmdline_args
\* of the in-kernel version makes of any sequence of options; the last option
\* about it decides.
CopyModesExclusive ==
  topic = "options" => ~({"copy", "zerocopy"} \subseteq parse_kernel(default_cfg, opts).bind)

(***************************************************************************)
(* Object files: three maps whose symbols are in any order, a function's   *)
(* symbol among them, .bss before or behind the maps or absent; reused     *)
(* maps, a failing call of load, and a failure that goes unnoticed.        *)
(***************************************************************************)

Declared == <<"logger", "blacklist", "data">>
MapSym(k) == [name |-> Declared[k], shndx |-> 5, value |-> k - 1]
FuncSym == [name |-> "xdp_filter_func", shndx |-> 3, value |-> 0]
BssSym(bss) == [name |-> "counter", shndx |-> bss, value |-> 0]

FileOf(perm, bss) ==
  LET syms == <<FuncSym>> \o [k \in 1 .. 3 |-> MapSym(perm[k])] \o (IF bss < 0 THEN <<>> ELSE <<BssSym(bss)>>)
  IN  [symtab |-> syms, maps_shndx |-> 5, size |-> 3, bss_shndx |-> bss,
       rels |-> [j \in 1 .. Len(syms) - 1 |-> Len(syms) + 1 - j], progs |-> <<"xdp_filter", "xdp_pass">>]

Paths == {"logger", "blacklist", "data", ".bss"}
Pinned(names) == [n \in Paths |-> IF n \in names THEN [run |-> 1, name |-> n] ELSE Closed]

Files == UNION {{FileOf(perm, bss) : bss \in {-1, 4, 6}} : perm \in Bijection(1 .. 3, 1 .. 3)}
Unnoticed == {"bpf_obj_get", "bpf_map__reuse_fd", "bpf_map__pin"}
Objects ==
  [file : Files, global_data : BOOLEAN,
   wanted : {{}, {"data"}, {"logger", "blacklist"}},
   pinned : {Pinned({}), Pinned({"logger"}), Pinned({"logger", "blacklist", "data"})},
   faults : {{}} \cup {{f} : f \in Unnoticed \X {"logger", "data"}},
   bad : 0 .. 6]

FirstObject == CHOOSE first \in Objects : first.bad = 0

NextObject ==
  /\ topic = "object"
  /\ o = FirstObject
  /\ o' \in Objects
  /\ UNCHANGED <<topic, opts, packet, x, y>>

Opened == bpf_object__open(o.file, o.global_data, 0)
Loaded == bpf_prog_load_xattr_maps(Opened, o.pinned, o.wanted, o.faults, 2, o.bad)
Fails == XattrFails(preset(Opened, bpf_obj_get(Opened, o.pinned, o.wanted, o.faults), o.faults), o.bad)
Names(maps) == [k \in DOMAIN maps |-> maps[k].name]

\* A file with .bss is only refused on a kernel without global data.
Opens == topic = "object" /\ (o.global_data \/ o.file.bss_shndx < 0)

\* bpf_map__next, by which main finds its maps, gives them in the order of
\* their declaration whatever the order of the symbols, the map of .bss where
\* its section is.
MapsInPlace ==
  Opens => Names(Opened.maps) = CASE o.file.bss_shndx < 0 -> Declared
                                  [] o.file.bss_shndx = 4 -> <<".bss">> \o Declared
                                  [] OTHER -> Declared \o <<".bss">>

\* A pin that bpf_prog_load_xattr_maps opens, and a map that it then reuses.
PinOpens(name) ==
  name \in o.wanted /\ HasMap(Opened, name) /\ o.pinned[name] # Closed /\ <<"bpf_obj_get", name>> \notin o.faults
Reuses(name) == PinOpens(name) /\ <<"bpf_map__reuse_fd", name>> \notin o.faults

\* Each instruction that refers to a map by its symbol gets the descriptor of
\* the map with that name: the one at the pin if it was wanted, opened and
\* reused, else a new one.  What bpf_prog_load_xattr_maps reports as map_fd is
\* the map at the pin, and also the one that the program uses unless the
\* failure of bpf_map__reuse_fd went unnoticed; for a map it reports none for
\* it has left the pin alone.
InsnsPatched ==
  Opens /\ ~Fails => \A j \in DOMAIN o.file.rels :
    LET sym == o.file.symtab[o.file.rels[j]]
        name == IF sym.name = "counter" THEN ".bss" ELSE sym.name
        fd == Loaded.map_fd[name]
    IN  /\ Loaded.obj.insns[j] = [run |-> IF Reuses(name) THEN 1 ELSE 2, name |-> name]
        /\ name \in o.wanted =>
             /\ Loaded.pinned[name] = IF fd = Closed THEN o.pinned[name] ELSE fd
             /\ fd # Closed => fd = Loaded.obj.insns[j] \/ (PinOpens(name) /\ ~Reuses(name))

\* A load that fails, at whichever map or program, leaves no descriptor in the
\* object, not even of the maps that were reused, and pins nothing.  What stays
\* open, in map_fd, are the pins that were opened, and no map of this load.
FailedLoadCloses ==
  Opens /\ Fails =>
    /\ \A k \in DOMAIN Loaded.obj.maps : Loaded.obj.maps[k].fd = Closed
    /\ Loaded.obj.progs = <<>> /\ Loaded.pinned = o.pinned
    /\ \A name \in o.wanted : Loaded.map_fd[name] = IF PinOpens(name) THEN o.pinned[name] ELSE Closed

(***************************************************************************)
(* Packets with up to three tags, cut off at any unit or followed by a     *)
(* payload.                                                                *)
(***************************************************************************)

ETH_P_IP == 2048
Tagged(protos) ==
  <<1, 1, 2, 3, 3, 4>> \o
    [k \in 1 .. 2 * Len(protos) - 1 |-> bpf_htons(IF k % 2 = 1 THEN protos[(k + 1) \div 2] ELSE 4096 + k)]
Whole ==
  {Tagged(p) : p \in {<<ETH_P_IP>>, <<ETH_P_8021Q, ETH_P_IP>>, <<ETH_P_8021AD, ETH_P_8021Q, ETH_P_IP>>,
                      <<ETH_P_8021Q, ETH_P_8021Q, ETH_P_8021AD, ETH_P_IP>>}}
MCFrames ==
  UNION {{SubSeq(w, 1, n) : n \in 6 .. Len(w)} : w \in Whole} \cup {w \o [k \in 1 .. n |-> 9] : w \in Whole, n \in {10, 24}}

Init ==
  /\ topic \in {"options", "object", "packet", "operands"}
  /\ opts = <<>> /\ o = FirstObject
  /\ IF topic = "packet" THEN PacketInit ELSE pkt = <<>> /\ pos = 0 /\ ret = 0 /\ vlans = <<>>
  /\ IF topic = "operands" THEN OperandsInit ELSE x = FP(0, 0) /\ y = FP(0, 0)

Next ==
  \/ AddOption
  \/ NextObject
  \/ topic = "packet" /\ PacketNext /\ UNCHANGED <<topic, opts, o, x, y>>
  \/ topic = "operands" /\ OperandsNext /\ UNCHANGED <<topic, opts, o, packet>>

Spec == Init /\ [][Next]_vars
=============================================================================
