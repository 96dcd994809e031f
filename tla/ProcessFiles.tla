---------------------------- MODULE ProcessFiles ----------------------------
(***************************************************************************)
(* parse_option_defaults and process_files of src/src/bas/cli/program.c,   *)
(* with a handler that loads the file (_load_file of io/file.c) and        *)
(* succeeds if that does.                                                  *)
(***************************************************************************)
EXTENDS LoadFile, Sequences

CONSTANTS
    Opt,      \* options as glib passes them on: "--name" or "-n"
    PathList  \* what process_files may be given: sequences of names

VARIABLES
    filesPc,        \* "options", "check", "open", "handle", "decide", "returned"
    errorContinue,  \* opt_error_continue
    paths,          \* the argument of process_files
    err,            \* its variable, and its result
    open,           \* the stream it has opened
    failed          \* a file could not be opened or handled

filesVars == <<filesPc, errorContinue, paths, err, open, failed>>
processVars == <<loadVars, filesVars>>

FilesInit ==
    /\ LoadInit
    /\ filesPc = "options" /\ errorContinue = FALSE
    /\ paths = <<>> /\ err = FALSE /\ open = FALSE /\ failed = FALSE

(* parse_option_defaults.  "-e" is not --error-continue; what force and the *)
(* verbosity change is left out.                                            *)
Known == {"--error-continue", "--force", "-f", "--quiet", "-q", "--verbose", "-v",
          "--version"}
ParseOption(o) ==
    /\ filesPc = "options"
    /\ errorContinue' = (errorContinue \/ o = "--error-continue")
    /\ filesPc' = IF o \in Known THEN "options" ELSE "bad_option"
    /\ UNCHANGED <<loadVars, paths, err, open, failed>>

CallProcessFiles(ps) ==
    /\ filesPc = "options"
    /\ paths' = ps
    /\ err' = FALSE /\ failed' = FALSE
    /\ filesPc' = IF ps = <<>> THEN "stdin" ELSE "check"
    /\ UNCHANGED <<loadVars, errorContinue, open>>

(* The loop ends at an empty name; `path' is the first, in every round:     *)
(* only `paths' moves on, and nothing reads it.                             *)
CheckPath ==
    /\ filesPc = "check"
    /\ filesPc' = IF paths[1] = "" THEN "returned" ELSE "open"
    /\ UNCHANGED <<loadVars, errorContinue, paths, err, open, failed>>

OpenFails ==
    /\ filesPc = "open"
    /\ err' = TRUE /\ failed' = TRUE
    /\ filesPc' = "decide"
    /\ UNCHANGED <<loadVars, errorContinue, paths, open>>

(* fopen, and the handler is called; with stdin if there are no names. *)
CallHandler ==
    /\ filesPc \in {"open", "stdin"}
    /\ LoadBegin
    /\ open' = (filesPc = "open")
    /\ filesPc' = "handle"
    /\ UNCHANGED <<errorContinue, paths, err, failed>>

Handle == filesPc = "handle" /\ LoadNext /\ UNCHANGED filesVars

Handled == data # NoBuffer
EndHandler(error) ==
    /\ filesPc = "handle" /\ loadPc = "end"
    /\ loadPc' = "idle"
    /\ err' = error
    /\ failed' = (failed \/ ~Handled)
    /\ open' = FALSE
    /\ filesPc' = IF paths = <<>> THEN "returned" ELSE "decide"
    /\ UNCHANGED <<length, left, eof, readErr, data, capacity, off, cb, memOff, padding,
                   overrun, errorContinue, paths>>

(* Faulty variant: each file begins with a new err. *)
HandlerReturnsForgets == EndHandler(IF paths = <<>> THEN Handled ELSE ~Handled)

(* The result of a handler for stdin is the result of process_files. *)
HandlerReturns ==
    EndHandler(IF paths = <<>> THEN Handled ELSE (err \/ ~Handled))

Decide ==
    /\ filesPc = "decide"
    /\ filesPc' = IF err /\ ~errorContinue THEN "returned" ELSE "check"
    /\ UNCHANGED <<loadVars, errorContinue, paths, err, open, failed>>

FilesNext ==
    \/ \E o \in Opt : ParseOption(o)
    \/ \E ps \in PathList : CallProcessFiles(ps)
    \/ CheckPath \/ OpenFails \/ CallHandler \/ Handle \/ HandlerReturns \/ Decide

FilesSpec == FilesInit /\ [][FilesNext]_processVars

(* process_files closes what it opened and knows of every file that failed, *)
(* the last one or an earlier one: with names, TRUE is returned after a     *)
(* failure only; without, FALSE is.                                         *)
FailuresReported ==
    /\ filesPc \in {"check", "decide"} => err = failed /\ ~open
    /\ filesPc = "returned" => err = (failed = (paths # <<>>)) /\ ~open
=============================================================================
