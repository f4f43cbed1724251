------------------------------ MODULE MCLoader ------------------------------
(***************************************************************************)
(* Instances of Loader: the four maps of xdp_prog_kern.c, an object file   *)
(* whose symbol table lists them in another order, and the command lines   *)
(* that differ in what the loader does.                                    *)
(***************************************************************************)
EXTENDS Loader, TLC

Symmetry == Permutations(Procs)

MCDevices == "eth0" :> 3
MCTooLong == {}
MCDeclared == <<"logger", "blacklist", "data", "tx_port">>

\* A file with the maps' symbols in the order of perm; the program's
\* instructions refer to the maps in the order of the declarations.
FileOf(perm) ==
  [symtab |-> [k \in 1 .. 4 |-> [name |-> MCDeclared[perm[k]], shndx |-> 5, value |-> perm[k] - 1]],
   maps_shndx |-> 5, size |-> 4, bss_shndx |-> -1,
   rels |-> [k \in 1 .. 4 |-> CHOOSE j \in 1 .. 4 : perm[j] = k], progs |-> <<"xdp_filter">>]

MCFiles == {FileOf(<<4, 2, 3, 1>>)}

Opts(letters) == <<[opt |-> "d", arg |-> "eth0"]>> \o [k \in DOMAIN letters |-> [opt |-> letters[k], arg |-> 0]]
Command(front, letters, expected) == [front |-> front, opts |-> Opts(letters), expected |-> expected]

MCCommands ==
  {Command("main", <<>>, 0), Command("main", <<"F">>, 0),
   Command("main", <<"S", "F">>, 0), Command("main", <<"A", "F">>, 0),
   Command("main", <<"U">>, 0), Command("common", <<"S", "U">>, 1),
   Command("common", <<"S", "F", "M">>, 0)}
=============================================================================
