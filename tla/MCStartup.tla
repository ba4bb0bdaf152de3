------------------------------ MODULE MCStartup ------------------------------
(* Jobs of three processes, which find their rank, their installation and    *)
(* gdb in many ways, and those that do not.                                *)
EXTENDS Startup, SequencesExt

Names == <<"OMPI_COMM_WORLD_RANK", "PMI_RANK", "OMPI_COMM_WORLD_SIZE", "PMI_SIZE",
           "MY_RANK", "MY_SIZE">>

Processes  == 0 .. 2
TwoRanks   == <<Names[1], Names[2]>>
TwoNprocs  == <<Names[3], Names[4]>>
AbsentPath == <<"(not set)">>

Identity(rank_var, nprocs_var, values) ==
  [rank_var |-> rank_var, nprocs_var |-> nprocs_var,
   vars |-> [name \in ToSet(Names) |-> values[CHOOSE i \in DOMAIN Names : Names[i] = name]]]

x == "unset"

Identities ==
  {Identity(None, None, <<"rank", x, "size", x, x, x>>),
   Identity(None, None, <<x, "rank", x, "size", x, x>>),
   Identity(None, None, <<"rank", "rank", "size", "size", x, x>>),
   Identity(None, None, <<x, x, x, x, "rank", "size">>),
   Identity(None, None, <<"rank", x, x, x, x, x>>),
   Identity(None, None, <<x, x, "size", x, x, x>>),
   Identity("MY_RANK", "MY_SIZE", <<x, x, x, x, "rank", "size">>),
   Identity("MY_RANK", "MY_SIZE", <<"rank", x, x, "size", "rank", "size">>),
   Identity("MY_RANK", None, <<"other", x, "size", x, "rank", x>>),
   Identity("MY_RANK", "MY_SIZE", <<x, "rank", x, x, x, x>>)}

(* Three directories; the opd of "lib" is a link.                          *)
Holdings(home, local, lib) == ("home" :> home) @@ ("local" :> local) @@ ("lib" :> lib)

Tools(p, prefix, g, binary, elements, holds, link, bin) ==
  [p |-> p, GDBASE_PREFIX |-> prefix, g |-> g, GDB_BINARY |-> binary,
   path |-> elements, holds |-> holds, link |-> link, bin |-> bin]

Everywhere == Holdings({"opd", "gdb"}, {"opd", "gdb"}, {"opd"})
InLocal    == Holdings({}, {"opd", "gdb"}, {})
Apart      == Holdings({"gdb"}, {"opd"}, {"gdb"})
NoLink     == <<>>
LibTo(dir) == "lib" :> dir

Toolsets ==
  {Tools(None, None, None, None, <<"home", "local">>, InLocal, NoLink, {"local"}),
   Tools(None, None, None, None, <<"local", "home", "lib">>, Apart, NoLink, {"local"}),
   Tools(None, None, None, None, <<"local", "home", "">>, InLocal, NoLink, {"local"}),
   Tools(None, None, None, None, <<"home", "", "local">>, Apart, NoLink, {"local"}),
   Tools(None, None, None, None, <<"local", "", "home">>, Apart, NoLink, {"local"}),
   Tools(None, None, None, None, <<"lib", "local">>, Everywhere, LibTo("local"), {"local"}),
   Tools(None, None, None, None, <<"", "lib", "local">>, Everywhere, LibTo("local"), {"local"}),
   Tools(None, None, None, None, <<"lib", "home">>, Everywhere, LibTo("local"), {"home", "local", "lib"}),
   Tools(None, None, None, None, <<"home", "local">>, Everywhere, NoLink, {"home", "local"}),
   Tools(None, None, None, None, <<"home", "local">>, Holdings({"gdb"}, {"opd", "gdb"}, {}),
         NoLink, {"local"}),
   Tools(None, None, None, None, <<"home">>, Everywhere, NoLink, {"local"}),
   Tools(None, None, None, None, <<"home">>, Holdings({}, {"opd"}, {}), NoLink, {"local"}),
   Tools(None, None, None, None, <<"local">>, Holdings({}, {"opd"}, {}), NoLink, {"local"}),
   Tools(None, None, None, None, AbsentPath, InLocal, NoLink, {"local"}),
   Tools(None, "local", None, "local", <<"home", "local">>, InLocal, NoLink, {"local"}),
   Tools("local", None, "local", None, AbsentPath, InLocal, NoLink, {"local"}),
   Tools("home", None, None, None, <<"local">>, InLocal, NoLink, {"local"}),
   Tools("local", "home", "local", "home", <<"local">>, InLocal, NoLink, {"local"})}

Job(identity, toolset, target, timeout) ==
  identity @@ toolset @@ [target |-> target, timeout |-> timeout]

AnIdentity == Identity(None, None, <<"rank", x, "size", x, x, x>>)
AToolset   == Tools("local", None, "local", None, <<"local">>, InLocal, NoLink, {"local"})

Jobs ==
  {Job(identity, AToolset, "exists", "none") : identity \in Identities}
    \cup {Job(AnIdentity, toolset, "exists", "valid") : toolset \in Toolsets}
    \cup {Job(AnIdentity, AToolset, target, timeout) :
            target \in {"exists", "missing", "not found"}, timeout \in {"none", "invalid"}}
=============================================================================
