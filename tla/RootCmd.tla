------------------------------ MODULE RootCmd -------------------------------
(***************************************************************************)
(* The root command's PersistentPreRunE (root.go part of s3.go:688-702):   *)
(* initializeConfig binds every flag to BORING_REGISTRY_<FLAG> and, for a  *)
(* flag not given on the command line whose variable is set, sets the flag *)
(* from it (bindFlags, s3.go:763-776); then setupLogger reads --json and   *)
(* --debug.  Execute (s3.go:704-709) runs the command: cobra first parses  *)
(* the command line, so that a flag given there is Changed and holds its   *)
(* parsed value and any other its default, and returns an error for a      *)
(* value that does not parse; Execute prints an error and exits 1.  A      *)
(* panic in bindFlags is not recovered and ends the process with status 2. *)
(***************************************************************************)
EXTENDS Sequences, Integers

CONSTANTS
  Flags,      \* flag names
  Kind,       \* Kind[f]: "bool", "string" or "duration"
  Default,    \* Default[f]: the default value text
  CliValues,  \* CliValues[f]: values a user may give f on the command line
  EnvValues,  \* values an environment variable may hold
  Unset,      \* a flag absent from the command line, a variable not set
  Parses,     \* Parses[k]: the texts pflag accepts for a flag of kind k
  VisitOrder  \* Flags in VisitAll's (lexicographic) order

ASSUME /\ {"json", "debug"} \subseteq Flags
       /\ Unset \notin EnvValues
       /\ \A f \in Flags : Default[f] \in Parses[Kind[f]]

VARIABLES
  cmdline,  \* the flags given on the command line (ghost)
  value,    \* flag -> its current value text
  changed,  \* flag -> its Changed bit
  env,      \* flag -> its BORING_REGISTRY_ variable, or Unset
  visit,    \* flags VisitAll has still to visit
  logger,   \* the logger's format and level, once set up, else NoLogger
  pc,       \* "parse", "bind", "ready", "failed", "panic" or "exited"
  exit      \* the process's exit status, once it ended, else NoExit

vars == <<cmdline, value, changed, env, visit, logger, pc, exit>>

NoExit == -1
NoLogger == [format |-> "none", level |-> "none"]

\* viper treats an empty variable as unset (AllowEmptyEnv is off)
IsSet(v) == v \notin {Unset, ""}

\* mutant: a variable overrides the command line
EnvOverridesIgnoringChanged(f) == IsSet(env[f])

\* !f.Changed && v.IsSet(f.Name)
EnvOverrides(f) == ~changed[f] /\ IsSet(env[f])

\* mutant: the variable's text is stored without being parsed
BindFlagNoParse ==
  LET f == Head(visit) IN
  /\ pc = "bind" /\ visit # <<>>
  /\ \/ /\ ~EnvOverrides(f)
        /\ visit' = Tail(visit) /\ UNCHANGED <<value, changed, pc>>
     \/ /\ EnvOverrides(f)
        /\ value' = [value EXCEPT ![f] = env[f]]
        /\ changed' = [changed EXCEPT ![f] = TRUE]
        /\ visit' = Tail(visit) /\ UNCHANGED pc
  /\ UNCHANGED <<cmdline, env, logger, exit>>

\* the VisitAll callback for the next flag; BindEnv cannot fail for a
\* non-empty name, and a Set that cannot parse the variable panics
BindFlag ==
  LET f == Head(visit) IN
  /\ pc = "bind" /\ visit # <<>>
  /\ \/ /\ ~EnvOverrides(f)
        /\ visit' = Tail(visit) /\ UNCHANGED <<value, changed, pc>>
     \/ /\ EnvOverrides(f) /\ env[f] \in Parses[Kind[f]]
        /\ value' = [value EXCEPT ![f] = env[f]]
        /\ changed' = [changed EXCEPT ![f] = TRUE]
        /\ visit' = Tail(visit) /\ UNCHANGED pc
     \/ /\ EnvOverrides(f) /\ env[f] \notin Parses[Kind[f]]
        /\ pc' = "panic" /\ UNCHANGED <<value, changed, visit>>
  /\ UNCHANGED <<cmdline, env, logger, exit>>

\* setupLogger(w): a JSON logger when --json is set, logfmt otherwise,
\* filtered at debug level when --debug is set, info otherwise (the
\* caller, timestamp and hostname fields are layout)
NewLogger(json, debug) ==
  [format |-> IF json THEN "json" ELSE "logfmt",
   level  |-> IF debug THEN "debug" ELSE "info"]

\* initializeConfig returns nil, then logger = setupLogger(os.Stdout) with
\* the flags as bound
SetupLogger ==
  /\ pc = "bind" /\ visit = <<>>
  /\ logger' = NewLogger(value["json"] = "true", value["debug"] = "true")
  /\ pc' = "ready"
  /\ UNCHANGED <<cmdline, value, changed, env, visit, exit>>

\* a flag given on the command line with a value its kind does not accept
BadOnCommandLine(f) == cmdline[f] # Unset /\ cmdline[f] \notin Parses[Kind[f]]

\* mutant: a command-line value is taken without being parsed
ParseFlagsLenient ==
  /\ pc = "parse"
  /\ value' = [f \in Flags |-> IF cmdline[f] # Unset THEN cmdline[f] ELSE value[f]]
  /\ changed' = [f \in Flags |-> cmdline[f] # Unset]
  /\ pc' = "bind"
  /\ UNCHANGED <<cmdline, env, visit, logger, exit>>

\* rootCmd.Execute() parses the command line before PersistentPreRunE runs:
\* every flag given there is Set and marked Changed, and a value that does
\* not parse is an error returned before any hook runs
ParseFlags ==
  /\ pc = "parse"
  /\ \/ /\ \A f \in Flags : ~BadOnCommandLine(f)
        /\ value' = [f \in Flags |-> IF cmdline[f] # Unset THEN cmdline[f] ELSE value[f]]
        /\ changed' = [f \in Flags |-> cmdline[f] # Unset]
        /\ pc' = "bind"
     \/ /\ \E f \in Flags : BadOnCommandLine(f)
        /\ pc' = "failed" /\ UNCHANGED <<value, changed>>
  /\ UNCHANGED <<cmdline, env, visit, logger, exit>>

\* Execute prints a returned error and exits 1; the subcommand's own run is
\* not in this module, so a command that got past the hook may end either
\* way; an unrecovered panic ends the process with the Go runtime's 2
Execute ==
  /\ exit = NoExit
  /\ \/ pc = "failed" /\ exit' = 1
     \/ pc = "ready" /\ exit' \in {0, 1}
     \/ pc = "panic" /\ exit' = 2
  /\ pc' = "exited"
  /\ UNCHANGED <<cmdline, value, changed, env, visit, logger>>

\* the flags as init() registers them, before the command line is parsed
Init ==
  /\ cmdline \in {c \in [Flags -> UNION {CliValues[f] : f \in Flags} \union {Unset}] :
                    \A f \in Flags : c[f] \in CliValues[f] \union {Unset}}
  /\ value = Default
  /\ changed = [f \in Flags |-> FALSE]
  /\ env \in [Flags -> EnvValues \union {Unset}]
  /\ visit = VisitOrder
  /\ logger = NoLogger
  /\ pc = "parse"
  /\ exit = NoExit

Next == ParseFlags \/ BindFlag \/ SetupLogger \/ Execute

Spec == Init /\ [][Next]_vars

(***************************************************************************)
(* Properties                                                              *)
(***************************************************************************)
TypeOK ==
  /\ \A f \in Flags : value[f] \in Parses[Kind[f]]
  /\ changed \in [Flags -> BOOLEAN]
  /\ pc \in {"parse", "bind", "ready", "failed", "panic", "exited"}
  /\ exit \in {NoExit, 0, 1, 2}

\* reference: the command line, then the environment, then the default
Resolved(f) ==
  IF cmdline[f] # Unset THEN cmdline[f]
  ELSE IF IsSet(env[f]) THEN env[f] ELSE Default[f]

\* Once PersistentPreRunE has returned, every flag holds the value of the
\* command line if given there, else of its BORING_REGISTRY_ variable if set
\* and non-empty, else its default; and the logger was set up from the
\* bound --json and --debug, not from their command-line values.
ConfigResolved ==
  pc = "ready" =>
    /\ \A f \in Flags : value[f] = Resolved(f)
    /\ logger.format = (IF Resolved("json") = "true" THEN "json" ELSE "logfmt")
    /\ logger.level = (IF Resolved("debug") = "true" THEN "debug" ELSE "info")

\* a variable bound to a flag the command line did not give, whose text the
\* flag's kind does not accept
BadInEnvironment(f) == cmdline[f] = Unset /\ IsSet(env[f]) /\ env[f] \notin Parses[Kind[f]]

\* The process exits 1 when a command-line value does not parse, whatever the
\* environment holds (cobra fails before bindFlags reads it); otherwise it
\* crashes with 2 exactly when a BORING_REGISTRY_ variable of a flag not given
\* does not parse (bindFlags panics); and it exits 0 only with every flag
\* resolved to a value its kind accepts and the logger set up.
ExitStatus ==
  exit # NoExit =>
    /\ (\E f \in Flags : BadOnCommandLine(f)) => exit = 1
    /\ (\A f \in Flags : ~BadOnCommandLine(f)) =>
         (exit = 2 <=> \E f \in Flags : BadInEnvironment(f))
    /\ exit = 0 => logger # NoLogger /\ \A f \in Flags : value[f] = Resolved(f)
=============================================================================
