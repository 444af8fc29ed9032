----------------------------- MODULE StaffImport -----------------------------
(***************************************************************************)
(* Importing staff from a file: the page (libs/feature/src/import.ts) and  *)
(* the endpoint behind it (backend/internal/server/import.go).             *)
(*                                                                         *)
(* A preview and the import itself send the same file; each time the       *)
(* server checks every row, outside of any transaction, and an import then *)
(* inserts the rows that passed in one transaction, which the unique index *)
(* on staff codes aborts.  An answer that is lost leaves the server at     *)
(* work while the administrator tries again, and codes are taken by others *)
(* meanwhile.                                                              *)
(*                                                                         *)
(* A file is the set of codes it holds; the other checks of a row do not   *)
(* change while the page is used, so rows that fail them are left out.     *)
(***************************************************************************)
EXTENDS AsyncPage, Sequences

CONSTANTS
  Code,
  File, RowsOf,   \* RowsOf[f]: the staff codes in file f
  TooBig,         \* the files over the size limit
  MaxImports      \* how often an import is confirmed (a bound)

VARIABLES
  file, result, step,
  awaited,        \* the request whose answer the page waits for
  imports,        \* server: the imports confirmed so far
  owner           \* server: the import (0: somebody else) that inserted each code

importVars == <<file, result, step, awaited, imports, owner>>

Result == [file : File, confirmed : Nat, rows : SUBSET Code]
Request == [kind : {"preview", "import", "template"}, file : File \cup {None},
            confirmed : Nat, rows : {None} \cup SUBSET Code]
Import == [file : File, state : {"sent", "checked", "done", "failed"}, rows : SUBSET Code]

ASSUME ImportAssumption ==
  /\ None \notin File \cup Result \cup Request \cup Nat
  /\ RowsOf \in [File -> SUBSET Code] /\ TooBig \subseteq File
  /\ MaxImports \in Nat

-------------------------------------------------------------------------------
FreeRows(f) == {c \in RowsOf[f] : owner[c] = None}

Send(r, kind, f, n) ==
  /\ Start(r)
  /\ awaited' = [kind |-> kind, file |-> f, confirmed |-> n, rows |-> None]
  /\ UNCHANGED alive

(* preview() of file f under run r: nothing without a file, an error for one *)
(* that is too big.                                                          *)
preview(r, f) ==
  \/ f = None /\ UNCHANGED <<asyncVars, awaited>>
  \/ f \in TooBig /\ error' = TRUE /\ UNCHANGED <<alive, current, busy, awaited>>
  \/ f \in File \ TooBig /\ Send(r, "preview", f, 0)

openImport ==
  /\ ~alive
  /\ alive' = TRUE
  /\ UNCHANGED <<current, busy, error, importVars>>

\* Mutant: a file dropped during a preview replaces the one that is previewed.
DropsWhileBusy(r, f) ==
  /\ alive /\ step = 1
  /\ file' = f
  /\ IF busy THEN UNCHANGED <<asyncVars, awaited>> ELSE preview(r, f)
  /\ UNCHANGED <<result, step, imports, owner>>

(* A file is chosen or dropped, or none (the file picker is cancelled).      *)
choose(r, f) ==
  /\ alive /\ step = 1
  /\ ~busy
  /\ file' = f
  /\ preview(r, f)
  /\ UNCHANGED <<result, step, imports, owner>>

RetryPreview(r) ==
  /\ alive /\ error /\ ~busy
  /\ preview(r, file)
  /\ UNCHANGED <<file, result, step, imports, owner>>

template(r) ==
  /\ alive /\ step = 1 /\ ~busy
  /\ Send(r, "template", None, 0)
  /\ UNCHANGED <<file, result, step, imports, owner>>

(* The import of the rows that the preview found free, as far as they are.   *)
confirmImport(r) ==
  /\ alive /\ step = 2 /\ ~busy
  /\ file # None /\ result.rows # {}
  /\ Len(imports) < MaxImports
  /\ Send(r, "import", file, Len(imports) + 1)
  /\ imports' = Append(imports, [file |-> file, state |-> "sent", rows |-> {}])
  /\ UNCHANGED <<file, result, step, owner>>

reset ==
  /\ alive /\ step > 1 /\ ~busy
  /\ file' = None /\ result' = None /\ step' = 1
  /\ error' = FALSE
  /\ UNCHANGED <<alive, current, busy, awaited, imports, owner>>

ImportAnswered ==
  /\ awaited # None
  /\ End(current, FALSE)
  /\ awaited' = None
  /\ UNCHANGED <<alive, file, imports, owner>>

(* The server has checked the rows of a preview; the rows arrive.            *)
PreviewServed ==
  /\ awaited # None /\ awaited.kind = "preview" /\ awaited.rows = None
  /\ awaited' = [awaited EXCEPT !.rows = FreeRows(awaited.file)]
  /\ UNCHANGED <<asyncVars, file, result, step, imports, owner>>

Previewed ==
  /\ awaited # None /\ awaited.kind = "preview" /\ awaited.rows # None
  /\ ImportAnswered
  /\ result' = [file |-> awaited.file, confirmed |-> 0, rows |-> awaited.rows]
  /\ step' = 2

TemplateArrives ==
  /\ awaited # None /\ awaited.kind = "template"
  /\ ImportAnswered
  /\ UNCHANGED <<result, step>>

(* The answer of an import, which is also given when no row was left.        *)
Imported ==
  /\ awaited # None /\ awaited.kind = "import"
  /\ imports[awaited.confirmed].state = "done"
  /\ ImportAnswered
  /\ result' = [file |-> awaited.file, confirmed |-> awaited.confirmed,
                rows |-> imports[awaited.confirmed].rows]
  /\ step' = 3

(* Any request may fail or its answer be lost.                               *)
ImportRequestFails ==
  /\ awaited # None
  /\ End(current, TRUE)
  /\ awaited' = None
  /\ UNCHANGED <<alive, file, result, step, imports, owner>>

-------------------------------------------------------------------------------
(* The server at work on an import: the rows are checked one by one, then    *)
(* those that passed are inserted in one transaction, or none of them.       *)
CheckRows(n) ==
  /\ imports[n].state = "sent"
  /\ imports' = [imports EXCEPT ![n].state = "checked",
                                ![n].rows = FreeRows(imports[n].file)]
  /\ UNCHANGED <<asyncVars, file, result, step, awaited, owner>>

\* Mutant: a row that was taken meanwhile is skipped, and counted.
SkipsTaken(n) ==
  /\ owner' = [c \in Code |-> IF c \in imports[n].rows /\ owner[c] = None THEN n ELSE owner[c]]
  /\ imports' = [imports EXCEPT ![n].state = "done"]

Insert(n) ==
  IF \A c \in imports[n].rows : owner[c] = None
  THEN /\ owner' = [c \in Code |-> IF c \in imports[n].rows THEN n ELSE owner[c]]
       /\ imports' = [imports EXCEPT ![n].state = "done"]
  ELSE /\ imports' = [imports EXCEPT ![n].state = "failed"]
       /\ UNCHANGED owner

InsertRows(n) ==
  /\ imports[n].state = "checked"
  /\ Insert(n)
  /\ UNCHANGED <<asyncVars, file, result, step, awaited>>

ImportFails(n) ==
  /\ imports[n].state \in {"sent", "checked"}
  /\ imports' = [imports EXCEPT ![n].state = "failed"]
  /\ UNCHANGED <<asyncVars, file, result, step, awaited, owner>>

(* Another administrator saves a member with this code. *)
TakeCode(c) ==
  /\ owner[c] = None
  /\ owner' = [owner EXCEPT ![c] = 0]
  /\ UNCHANGED <<asyncVars, file, result, step, awaited, imports>>

ImportInit ==
  /\ file = None /\ result = None /\ step = 1
  /\ awaited = None
  /\ imports = <<>>
  /\ owner = [c \in Code |-> None]

ImportNext ==
  \/ openImport \/ reset
  \/ \E r \in Run : \/ RetryPreview(r) \/ template(r) \/ confirmImport(r)
                    \/ \E f \in File \cup {None} : choose(r, f)
  \/ PreviewServed \/ Previewed \/ TemplateArrives \/ Imported \/ ImportRequestFails
  \/ \E n \in DOMAIN imports : CheckRows(n) \/ InsertRows(n) \/ ImportFails(n)
  \/ \E c \in Code : TakeCode(c)

ImportSpec == AsyncInit /\ ImportInit /\ [][ImportNext]_<<asyncVars, importVars>>

-------------------------------------------------------------------------------
ImportTypeOK ==
  /\ file \in File \cup {None} /\ result \in Result \cup {None} /\ step \in 1..3
  /\ awaited \in Request \cup {None}
  /\ imports \in Seq(Import) /\ Len(imports) <= MaxImports
  /\ owner \in [Code -> {None} \cup 0..MaxImports]

Inserted(n) == {c \in Code : owner[c] = n}

(* What is confirmed is what was previewed, and what the last step reports   *)
(* is what this very import inserted, all of it, although answers are lost,  *)
(* the import is tried again while the first is at work, and the codes are   *)
(* checked before the transaction that inserts them.                         *)
ImportExact ==
  /\ step > 1 => result # None /\ result.file = file
  /\ step = 3 => result.rows = Inserted(result.confirmed)
===============================================================================
