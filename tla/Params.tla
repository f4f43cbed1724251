------------------------------- MODULE Params -------------------------------
(***************************************************************************)
(* The command line: parse_cmdline_args, in the version of the user-space  *)
(* loader (parse_user) and in that of the in-kernel version                *)
(* (parse_kernel), as functions from a sequence of options to a            *)
(* configuration.                                                          *)
(*                                                                         *)
(* An option is a record of the character getopt_long returns and its      *)
(* argument.  Options with a long name only are called by that name; "?"   *)
(* is what getopt_long returns for an option it does not know, --udef      *)
(* included, whose character 'i' no case handles.  The name of a device is *)
(* in Devices, in TooLong, or unknown to if_nametoindex.                   *)
(***************************************************************************)
EXTENDS Integers, Sequences

CONSTANTS
  Devices,      \* function from the names of the interfaces to their index
  TooLong       \* names of IF_NAMESIZE characters or more

EXIT_FAIL_OPTION == 2

\* The configuration that the loader's main starts from; file names, MAC
\* addresses and section names are left out.
default_cfg ==
  [exit |-> 0, ifindex |-> -1, redirect_ifindex |-> 0, mode |-> "drv", noexist |-> TRUE,
   do_unload |-> FALSE, unload_all |-> FALSE, prog_id |-> 0, reuse_maps |-> FALSE,
   bind |-> {}, poll |-> FALSE, queue |-> 0, verbose |-> TRUE]

Fail(cfg) == [cfg EXCEPT !.exit = EXIT_FAIL_OPTION]

\* Options 'd' and 'r': what if_nametoindex makes of the name.
Device(cfg, field, name) ==
  IF name \in TooLong THEN Fail(cfg)
  ELSE IF name \in DOMAIN Devices THEN [cfg EXCEPT ![field] = Devices[name]]
  ELSE Fail([cfg EXCEPT ![field] = 0])

\* The cases that both versions share.
shared_option(cfg, o) ==
  CASE o.opt = "d" -> Device(cfg, "ifindex", o.arg)
    [] o.opt = "r" -> Device(cfg, "redirect_ifindex", o.arg)
    [] o.opt = "A" -> [cfg EXCEPT !.mode = "auto"]
    [] o.opt = "N" -> [cfg EXCEPT !.mode = "drv"]
    [] o.opt = "offload-mode" -> [cfg EXCEPT !.mode = "hw"]
    [] o.opt = "M" -> [cfg EXCEPT !.reuse_maps = TRUE]
    [] o.opt = "p" -> [cfg EXCEPT !.poll = TRUE]
    [] o.opt = "q" -> [cfg EXCEPT !.verbose = FALSE]
    [] o.opt = "Q" -> [cfg EXCEPT !.queue = o.arg]
    [] o.opt \in {"filename", "progsec", "progname", "L", "R"} -> cfg
    [] OTHER -> Fail(cfg)

\* "&= XDP_ZEROCOPY" keeps what the other version's "&= ~XDP_ZEROCOPY"
\* clears, and the same for XDP_COPY.
option_user(cfg, o) ==
  CASE o.opt = "S" -> [cfg EXCEPT !.mode = "skb", !.bind = (@ \cap {"zerocopy"}) \cup {"copy"}]
    [] o.opt = "F" -> [cfg EXCEPT !.noexist = FALSE]
    [] o.opt = "U" -> [cfg EXCEPT !.do_unload = TRUE]
    [] o.opt = "c" -> [cfg EXCEPT !.bind = (@ \cap {"zerocopy"}) \cup {"copy"}]
    [] o.opt = "z" -> [cfg EXCEPT !.bind = (@ \cap {"copy"}) \cup {"zerocopy"}]
    [] OTHER -> shared_option(cfg, o)

\* Mutant: the flag of the other copy mode is kept, as above.
OptionKept(cfg, o) ==
  CASE o.opt \in {"S", "c"} -> [cfg EXCEPT !.bind = (@ \cap {"zerocopy"}) \cup {"copy"}]
    [] o.opt = "z" -> [cfg EXCEPT !.bind = (@ \cap {"copy"}) \cup {"zerocopy"}]
    [] OTHER -> shared_option(cfg, o)

option_kernel(cfg, o) ==
  CASE o.opt = "S" -> [cfg EXCEPT !.mode = "skb", !.bind = (@ \ {"zerocopy"}) \cup {"copy"}]
    [] o.opt = "U" -> [cfg EXCEPT !.do_unload = TRUE, !.prog_id = o.arg]
    [] o.opt = "unload-all" -> [cfg EXCEPT !.unload_all = TRUE]
    [] o.opt = "c" -> [cfg EXCEPT !.bind = (@ \ {"zerocopy"}) \cup {"copy"}]
    [] o.opt = "z" -> [cfg EXCEPT !.bind = (@ \ {"copy"}) \cup {"zerocopy"}]
    [] OTHER -> shared_option(cfg, o)

\* getopt_long hands out the options in order; exit ends the process at the
\* first one that fails.
parse_user(cfg, opts) ==
  LET parsed[n \in Nat] ==
        IF n = 0 THEN cfg
        ELSE IF parsed[n - 1].exit # 0 THEN parsed[n - 1] ELSE option_user(parsed[n - 1], opts[n])
  IN  parsed[Len(opts)]

parse_kernel(cfg, opts) ==
  LET parsed[n \in Nat] ==
        IF n = 0 THEN cfg
        ELSE IF parsed[n - 1].exit # 0 THEN parsed[n - 1] ELSE option_kernel(parsed[n - 1], opts[n])
  IN  parsed[Len(opts)]
=============================================================================
