--------------------------- MODULE KobjectExample ---------------------------
(***************************************************************************)
(* Studio 5 (studios/studio5/kobject-example.c): three files in sysfs, each  *)
(* backed by a static variable.  Users that have opened a file each run its  *)
(* handlers at the same time; the kernel runs a handler only while the file  *)
(* exists and lets the removal of a file wait for the handlers inside it.    *)
(***************************************************************************)
CONSTANTS
  KobUsers,   \* processes that use the files
  KobValues,  \* the numbers they write
  Invalid     \* what kstrtoint refuses

ASSUME KobAssumption == 0 \in KobValues /\ Invalid \notin KobValues

VARIABLES
  kobModule,     \* "new", "loading", "loaded", "unloading", "removed"
  example_kobj,  \* "none", "created", "files" (the group exists), "deleted"
  foo, baz, bar,
  kobPc,         \* where each user is: in user space or in a store handler
  kobFile,       \* the file a user last wrote to
  kobBuf,        \* what it wrote there: a number or Invalid
  kobVar,        \* the local variable var of b_store
  kobKept        \* users whose number nobody has overwritten since (history)

kobVars == <<kobModule, example_kobj, foo, baz, bar, kobPc, kobFile, kobBuf,
             kobVar, kobKept>>
kobData == <<foo, baz, bar, kobPc, kobFile, kobBuf, kobVar, kobKept>>

KobFiles == {"foo", "baz", "bar"}

\* foo_show and b_show.
Shown(f) == CASE f = "foo" -> foo [] f = "baz" -> baz [] f = "bar" -> bar

-----------------------------------------------------------------------------
(* Mutated forms of the operators that follow. *)
SetVar_Static(u, n) == kobVar' = [v \in KobUsers |-> n]

-----------------------------------------------------------------------------
\* The parse into the local variable; strcmp(attr->attr.name, "baz") == 0; the
\* kobject_put after sysfs_create_group has failed; the end of kobject_put.
SetVar(u, n) == kobVar' = [kobVar EXCEPT ![u] = n]
IsBaz(f) == f = "baz"
GroupFailed == example_kobj' = "none"
Drained == example_kobj = "deleted" /\ \A u \in KobUsers : kobPc[u] = "user"

KobInit ==
  /\ kobModule = "new" /\ example_kobj = "none"
  /\ foo = 0 /\ baz = 0 /\ bar = 0
  /\ kobPc = [u \in KobUsers |-> "user"]
  /\ kobFile = [u \in KobUsers |-> "foo"]
  /\ kobBuf = [u \in KobUsers |-> Invalid]
  /\ kobVar = [u \in KobUsers |-> 0]
  /\ kobKept = {}

\* example_init: kobject_create_and_add, then sysfs_create_group.  A module
\* whose init fails is not loaded.
example_init ==
  /\ \/ /\ kobModule = "new"
        /\ \/ kobModule' = "loading" /\ example_kobj' = "created"
           \/ UNCHANGED <<kobModule, example_kobj>>
     \/ /\ kobModule = "loading" /\ example_kobj = "created"
        /\ \/ kobModule' = "loaded" /\ example_kobj' = "files"
           \/ kobModule' = "new" /\ GroupFailed
  /\ UNCHANGED kobData

\* example_exit: kobject_put removes the files and waits for their handlers.
example_exit ==
  /\ \/ /\ kobModule = "loaded" /\ example_kobj = "files"
        /\ kobModule' = "unloading" /\ example_kobj' = "deleted"
     \/ /\ kobModule = "unloading" /\ Drained
        /\ kobModule' = "removed" /\ example_kobj' = "none"
  /\ UNCHANGED kobData

-----------------------------------------------------------------------------
KobGoto(u, l) == kobPc' = [kobPc EXCEPT ![u] = l]

\* A user writes to a file.
KobWrite(u, f, in) ==
  /\ example_kobj = "files" /\ kobPc[u] = "user"
  /\ KobGoto(u, "parse")
  /\ kobFile' = [kobFile EXCEPT ![u] = f]
  /\ kobBuf' = [kobBuf EXCEPT ![u] = in]
  /\ kobKept' = kobKept \ {u}
  /\ UNCHANGED <<kobModule, example_kobj, foo, baz, bar, kobVar>>

\* The file of u now holds its number.
Overwrite(u) == kobKept' = {v \in kobKept : kobFile[v] # kobFile[u]} \cup {u}

\* The last step of foo_store: kstrtoint writes a valid number to foo itself.
foo_store(u) ==
  /\ kobPc[u] = "parse" /\ kobFile[u] = "foo"
  /\ KobGoto(u, "user")
  /\ \/ kobBuf[u] = Invalid /\ UNCHANGED <<foo, kobKept>>
     \/ kobBuf[u] # Invalid /\ foo' = kobBuf[u] /\ Overwrite(u)
  /\ UNCHANGED <<kobModule, example_kobj, baz, bar, kobFile, kobBuf, kobVar>>

\* b_store parses into its local variable, then assigns.
b_parse(u) ==
  /\ kobPc[u] = "parse" /\ kobFile[u] # "foo"
  /\ \/ kobBuf[u] = Invalid /\ KobGoto(u, "user") /\ UNCHANGED kobVar
     \/ kobBuf[u] # Invalid /\ KobGoto(u, "assign") /\ SetVar(u, kobBuf[u])
  /\ UNCHANGED <<kobModule, example_kobj, foo, baz, bar, kobFile, kobBuf, kobKept>>

b_store(u) ==
  /\ kobPc[u] = "assign"
  /\ \/ IsBaz(kobFile[u]) /\ baz' = kobVar[u] /\ UNCHANGED bar
     \/ ~IsBaz(kobFile[u]) /\ bar' = kobVar[u] /\ UNCHANGED baz
  /\ KobGoto(u, "user") /\ Overwrite(u)
  /\ kobVar' = [kobVar EXCEPT ![u] = 0]
  /\ UNCHANGED <<kobModule, example_kobj, foo, kobFile, kobBuf>>

KobNext ==
  \/ example_init \/ example_exit
  \/ \E u \in KobUsers :
       \/ \E f \in KobFiles, in \in KobValues \cup {Invalid} : KobWrite(u, f, in)
       \/ foo_store(u) \/ b_parse(u) \/ b_store(u)

KobSpec == KobInit /\ [][KobNext]_kobVars

-----------------------------------------------------------------------------
KobTypeOK ==
  /\ kobModule \in {"new", "loading", "loaded", "unloading", "removed"}
  /\ example_kobj \in {"none", "created", "files", "deleted"}
  /\ {foo, baz, bar} \subseteq KobValues
  /\ kobPc \in [KobUsers -> {"user", "parse", "assign"}]
  /\ kobFile \in [KobUsers -> KobFiles]
  /\ kobBuf \in [KobUsers -> KobValues \cup {Invalid}]
  /\ kobVar \in [KobUsers -> KobValues]
  /\ kobKept \subseteq KobUsers

\* "If an integer is written to these files, it can be later read out of it":
\* a show returns the number of the last valid write to that file, whatever
\* writes to it and to the others were in progress, invalid ones included.
ReadBack == \A u \in kobKept : Shown(kobFile[u]) = kobBuf[u]

\* No handler runs, and no kobject is left, when the module is not there: not
\* loaded because example_init failed half way, or removed.
HandlersDrained ==
  kobModule \in {"new", "removed"} =>
    example_kobj = "none" /\ \A u \in KobUsers : kobPc[u] = "user"
=============================================================================
