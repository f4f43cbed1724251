------------------------------ MODULE BpfObject ------------------------------
(***************************************************************************)
(* How libbpf turns an object file into kernel maps and a loaded program:  *)
(* bpf_object__open (symbols to maps, sorting, relocation records) and     *)
(* bpf_object__load (creating maps, patching instructions, loading         *)
(* programs, undoing all of it when a step fails), as functions.  All of   *)
(* it is private to the process that calls it.                             *)
(*                                                                         *)
(* A file has a symbol table, the index of its section "maps", the size of *)
(* that section in map definitions, the index of .bss (-1 without one),    *)
(* the symbol table index that each relocated instruction refers to, and   *)
(* the sections that hold programs.  A file descriptor is the kernel       *)
(* object it stands for: the run of the loader that created the object,    *)
(* and its name.  bad says which system call fails: 0 none, -1 one of      *)
(* those of open, i the i-th of those of load.  Parsing ELF and BTF, the   *)
(* verifier and CO-RE relocations are abstracted to that failure.          *)
(***************************************************************************)
EXTENDS Integers, Sequences, Functions, FiniteSetsExt

Closed == [run |-> 0, name |-> ""]

\* No object: what a failed open or load returns.
NULL == [maps |-> <<>>, reloc |-> <<>>, insns |-> <<>>, titles |-> <<>>, progs |-> <<>>]

\* The symbols of the section "maps".
MapSyms(file) == {i \in DOMAIN file.symtab : file.symtab[i].shndx = file.maps_shndx}

\* The maps that they stand for, by the index of the symbol.
init_user_maps(file) ==
  [i \in MapSyms(file) |->
     LET sym == file.symtab[i]
     IN  [name |-> sym.name, type |-> "unspec", sec_idx |-> sym.shndx, sec_offset |-> sym.value, fd |-> Closed]]

\* The section must divide into as many definitions as it has symbols, and
\* hold the definition at each of them.
UserMapsFit(file) ==
  LET nr_maps == Cardinality(MapSyms(file))
  IN  /\ file.size > 0 /\ nr_maps > 0
      /\ file.size % nr_maps = 0
      /\ \A i \in MapSyms(file) : file.symtab[i].value + file.size \div nr_maps <= file.size

\* The internal map of a .bss section, if the kernel supports one.
init_global_data_maps(file, global_data) ==
  [i \in IF global_data /\ file.bss_shndx >= 0 THEN {0} ELSE {} |->
     [name |-> ".bss", type |-> "bss", sec_idx |-> file.bss_shndx, sec_offset |-> 0, fd |-> Closed]]

\* Mutant: by offset alone.
CompareOffsets(a, b) == a.sec_offset < b.sec_offset

\* The order that qsort puts maps in.
compare_bpf_map(a, b) ==
  IF a.sec_idx # b.sec_idx THEN a.sec_idx < b.sec_idx ELSE a.sec_offset < b.sec_offset

\* obj->maps before they are sorted.
Added(file, global_data) ==
  LET user == init_user_maps(file)
      internal == init_global_data_maps(file, global_data)
  IN  [i \in DOMAIN user \cup DOMAIN internal |-> IF i \in DOMAIN user THEN user[i] ELSE internal[i]]

\* order numbers the maps such that none comes before a smaller one.
Ordered(maps, order) ==
  \A j, k \in DOMAIN order : j < k => ~compare_bpf_map(maps[order[k]], maps[order[j]])

qsort(maps) ==
  LET order == CHOOSE order \in Bijection(1 .. Cardinality(DOMAIN maps), DOMAIN maps) : Ordered(maps, order)
  IN  [k \in DOMAIN order |-> maps[order[k]]]

init_maps(file, global_data) == qsort(Added(file, global_data))

\* The maps that the loop over map_idx may stop at for symbol sym.
Matching(file, maps, sym) ==
  LET type == IF sym.shndx = file.bss_shndx THEN "bss" ELSE "unspec"
  IN  {k \in DOMAIN maps :
         /\ maps[k].type = type
         /\ type # "unspec" \/ (maps[k].sec_idx = sym.shndx /\ maps[k].sec_offset = sym.value)}

\* Every relocation must find its map.
RelocFits(file, maps) == \A j \in DOMAIN file.rels : Matching(file, maps, file.symtab[file.rels[j]]) # {}

\* Mutant: the offset within the section is not compared.
FirstOfSection(file, maps) ==
  [j \in DOMAIN file.rels |->
     Min({k \in DOMAIN maps : maps[k].sec_idx = file.symtab[file.rels[j]].shndx})]

collect_reloc(file, maps) ==
  [j \in DOMAIN file.rels |-> Min(Matching(file, maps, file.symtab[file.rels[j]]))]

open_with(file, maps) ==
  IF RelocFits(file, maps)
  THEN [maps |-> maps, reloc |-> collect_reloc(file, maps), insns |-> <<>>, titles |-> file.progs, progs |-> <<>>]
  ELSE NULL

\* NULL on failure, which leaves nothing behind.
bpf_object__open(file, global_data, bad) ==
  IF bad = -1 \/ ~UserMapsFit(file) THEN NULL ELSE open_with(file, init_maps(file, global_data))

\* bad is a call of create_maps: there is one per map that is not preset.
Creates(maps, bad) == bad \in DOMAIN maps /\ maps[bad].fd = Closed

\* Maps that reuse_maps preset keep their descriptor; when a map cannot be
\* created, the descriptors before it are closed, preset ones too.
create_maps(maps, run, bad) ==
  IF Creates(maps, bad)
  THEN [k \in DOMAIN maps |-> IF k < bad THEN [maps[k] EXCEPT !.fd = Closed] ELSE maps[k]]
  ELSE [k \in DOMAIN maps |->
          IF maps[k].fd = Closed THEN [maps[k] EXCEPT !.fd = [run |-> run, name |-> maps[k].name]] ELSE maps[k]]

bpf_object__relocate(obj) == [j \in DOMAIN obj.reloc |-> obj.maps[obj.reloc[j]].fd]

\* The loop ends at the first program that cannot be loaded.
load_progs(obj, run, bad) ==
  [j \in DOMAIN obj.titles |-> IF bad > Len(obj.maps) /\ j >= bad - Len(obj.maps) THEN 0 ELSE run]

\* Mutant: the error path of load leaves the descriptors to create_maps.
UnloadNothing(obj) == obj

bpf_object__unload(obj) ==
  [obj EXCEPT !.maps = [k \in DOMAIN obj.maps |-> [obj.maps[k] EXCEPT !.fd = Closed]], !.progs = <<>>]

\* The two phases after create_maps.
Relocated(obj, run, bad) ==
  [obj EXCEPT !.insns = bpf_object__relocate(obj), !.progs = load_progs(obj, run, bad)]

LoadFails(obj, bad) == Creates(obj.maps, bad) \/ bad - Len(obj.maps) \in DOMAIN obj.titles

bpf_object__load(obj, run, bad) ==
  LET created == [obj EXCEPT !.maps = create_maps(@, run, bad)]
  IN  IF Creates(obj.maps, bad) THEN bpf_object__unload(created)
      ELSE IF LoadFails(obj, bad) THEN bpf_object__unload(Relocated(created, run, bad))
      ELSE Relocated(created, run, bad)

(***************************************************************************)
(* bpf_prog_load_xattr_maps shares the wanted maps through their pins.     *)
(* Three of its calls may fail unnoticed; faults holds the ones that do,   *)
(* each with the name of its map.  map_fd gives the descriptors it reports *)
(* to the caller; the one of a pin is a descriptor beside that of the map, *)
(* which bpf_map__reuse_fd duplicates, and bpf_object__close closes only   *)
(* the latter.                                                             *)
(***************************************************************************)

HasMap(obj, name) == \E k \in DOMAIN obj.maps : obj.maps[k].name = name
MapNamed(obj, name) == obj.maps[CHOOSE k \in DOMAIN obj.maps : obj.maps[k].name = name]

\* map_fd after the first loop: the pins that could be opened.
bpf_obj_get(obj, pinned, wanted, faults) ==
  [n \in wanted |-> IF HasMap(obj, n) /\ <<"bpf_obj_get", n>> \notin faults THEN pinned[n] ELSE Closed]

\* The object after it: the maps of these pins are preset.
preset(obj, map_fd, faults) ==
  [obj EXCEPT !.maps = [k \in DOMAIN obj.maps |->
     LET n == obj.maps[k].name
     IN  IF n \in DOMAIN map_fd /\ <<"bpf_map__reuse_fd", n>> \notin faults
         THEN [obj.maps[k] EXCEPT !.fd = map_fd[n]] ELSE obj.maps[k]]]

\* The maps that the last loop pins: an existing pin is not replaced.
bpf_map__pin(obj, pinned, map_fd, faults) ==
  {n \in DOMAIN map_fd : /\ HasMap(obj, n) /\ map_fd[n] = Closed
                         /\ pinned[n] = Closed /\ <<"bpf_map__pin", n>> \notin faults}

\* Pins, or reported descriptors, once the maps of obj called names are pinned.
pin_created(fds, obj, names) ==
  [n \in DOMAIN fds |-> IF n \in names THEN MapNamed(obj, n).fd ELSE fds[n]]

\* A file without programs is refused before anything is loaded.
XattrFails(obj, bad) == obj.titles = <<>> \/ LoadFails(obj, bad)

\* Nobody else pins meanwhile.
bpf_prog_load_xattr_maps(obj, pinned, wanted, faults, run, bad) ==
  LET map_fd == bpf_obj_get(obj, pinned, wanted, faults)
      ready == preset(obj, map_fd, faults)
      loaded == bpf_object__load(ready, run, bad)
      names == bpf_map__pin(loaded, pinned, map_fd, faults)
  IN  IF XattrFails(ready, bad)
      THEN [obj |-> bpf_object__unload(IF obj.titles = <<>> THEN ready ELSE loaded), map_fd |-> map_fd, pinned |-> pinned]
      ELSE [obj |-> loaded, map_fd |-> pin_created(map_fd, loaded, names),
            pinned |-> pin_created(pinned, loaded, names)]

find_program_by_title(obj, title) == {j \in DOMAIN obj.titles : obj.titles[j] = title}

\* bpf_map__next from NULL gives the first map, and from the last one none.
bpf_map__next(obj, k) == IF k + 1 \in DOMAIN obj.maps THEN k + 1 ELSE 0
=============================================================================
