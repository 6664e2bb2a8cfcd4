------------------------------- MODULE Config -------------------------------
(***************************************************************************)
(* Where a setting comes from (internal/config/config.go): Load fills the   *)
(* environment from ENV_FILE, then from .env, line by line, and reads every *)
(* setting from it once.  Values are told apart by what the readers of      *)
(* settings do with them.                                                   *)
(***************************************************************************)
EXTENDS Integers, Sequences

CONSTANTS
    Keys,       \* names of settings
    Kind,       \* Kind[k] is how k is read: "flag" (on by default),
                \* "number" or "secret"
    Default,    \* the setting has its default value
    Environments,   \* those the process may be started with
    MaxSecrets, \* bound: the lines of ENV_FILE
    MaxDotEnv   \* bound: the lines of .env

\* os.Getenv of a variable that is not set, or is empty.
Unset == ""

\* Nothing, white space, a number (and no flag), a flag, and neither.
Values == {Unset, " ", "7", "off", "word"}

ASSUME ConfigAssumption ==
    /\ Kind \in [Keys -> {"flag", "number", "secret"}]
    /\ Environments \subseteq [Keys -> Values]
    /\ MaxSecrets \in Nat /\ MaxDotEnv \in Nat

Assignment == [key : Keys, value : Values]
\* A line without "=", an empty one or one that starts with # is skipped.
Skipped == <<>>
Lines == {<<a>> : a \in Assignment} \cup {Skipped}

Files(n) == UNION {[1..m -> Lines] : m \in 0..n}

VARIABLES
    given,      \* the environment the process was started with
    secrets,    \* the lines of ENV_FILE; none when it is unset or unreadable
    dotenv,     \* the lines of .env
    pc,         \* "secrets", "dotenv", "settings" or "done"
    line,       \* the next line of the file being read
    environ,    \* the environment now
    settings    \* the Config of this process

vars == <<given, secrets, dotenv, pc, line, environ, settings>>

sources == <<given, secrets, dotenv>>

Init ==
    /\ given \in Environments
    /\ secrets \in Files(MaxSecrets) /\ dotenv \in Files(MaxDotEnv)
    /\ pc = "secrets" /\ line = 1
    /\ environ = given /\ settings = [k \in Keys |-> Default]

-----------------------------------------------------------------------------

\* strings.TrimSpace
Trimmed(v) == IF v = " " THEN Unset ELSE v

\* mutant: a later line replaces an earlier one
SetLast(a) == [environ EXCEPT ![a.key] = Trimmed(a.value)]

\* What the environment has is kept, unless it is empty.
SetUnlessSet(a) ==
    IF environ[a.key] = Unset
    THEN [environ EXCEPT ![a.key] = Trimmed(a.value)]
    ELSE environ

\* loadDotEnv, one line of the file, then what comes after it.
ReadFile(file, next) ==
    /\ IF line <= Len(file)
       THEN /\ environ' = IF file[line] = Skipped THEN environ
                          ELSE SetUnlessSet(file[line][1])
            /\ line' = line + 1 /\ UNCHANGED pc
       ELSE line' = 1 /\ pc' = next /\ UNCHANGED environ
    /\ UNCHANGED <<sources, settings>>

ReadFiles ==
    \/ pc = "secrets" /\ ReadFile(secrets, "dotenv")
    \/ pc = "dotenv" /\ ReadFile(dotenv, "settings")

\* mutant: a number nobody can read is taken as it is
ParsedRaw(k, v) ==
    CASE Kind[k] = "flag" -> IF Trimmed(v) = "off" THEN FALSE ELSE Default
      [] Kind[k] = "number" -> IF Trimmed(v) = "7" THEN "7" ELSE Trimmed(v)
      [] Kind[k] = "secret" -> IF v = Unset THEN Default ELSE v

\* envBool, envInt, and os.Getenv for the credentials.
Parsed(k, v) ==
    CASE Kind[k] = "flag" -> IF Trimmed(v) = "off" THEN FALSE ELSE Default
      [] Kind[k] = "number" -> IF Trimmed(v) = "7" THEN "7" ELSE Default
      [] Kind[k] = "secret" -> IF v = Unset THEN Default ELSE v

ReadSettings ==
    /\ pc = "settings" /\ pc' = "done"
    /\ settings' = [k \in Keys |-> Parsed(k, environ[k])]
    /\ UNCHANGED <<sources, line, environ>>

Next == ReadFiles \/ ReadSettings

Spec == Init /\ [][Next]_vars

-----------------------------------------------------------------------------
(* Properties.                                                              *)

\* What a reader of a setting of each kind may get.
Meanings ==
    [flag |-> {FALSE, Default}, number |-> {"7", Default},
     secret |-> (Values \ {Unset}) \cup {Default}]

\* The state has its type: a flag or a number nobody can read is the default.
TypeOK ==
    /\ given \in Environments
    /\ secrets \in Seq(Lines) /\ dotenv \in Seq(Lines)
    /\ pc \in {"secrets", "dotenv", "settings", "done"} /\ line \in Nat
    /\ environ \in [Keys -> Values]
    /\ \A k \in Keys : settings[k] \in Meanings[Kind[k]]

\* The lines in the order of their sources: ENV_FILE, then .env.
Text == secrets \o dotenv

Assigns(item, k) == item # Skipped /\ item[1].key = k

\* What k is offered: first by the environment, then by each line.
Offer(k, i) ==
    IF i = 0 THEN given[k]
    ELSE IF Assigns(Text[i], k) THEN Trimmed(Text[i][1].value)
    ELSE Unset

\* v is the first of the offers up to n that is not empty; else it is empty.
FirstOffer(k, n, v) ==
    \/ v = Unset /\ \A i \in 0..n : Offer(k, i) = Unset
    \/ /\ v # Unset
       /\ \E i \in 0..n : /\ v = Offer(k, i)
                          /\ \A j \in 0..(i - 1) : Offer(k, j) = Unset

\* Each setting is read from the first source that has a value for it,
\* whatever the other settings and sources are: ENV_FILE wins over .env, which
\* still supplies the rest (config.go:54-55, config_test.go:10-11).
FirstSourceWins ==
    pc = "done" =>
        \A k \in Keys : \E v \in Values :
            FirstOffer(k, Len(Text), v) /\ settings[k] = Parsed(k, v)

=============================================================================
