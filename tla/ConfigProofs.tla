---------------------------- MODULE ConfigProofs ----------------------------
(***************************************************************************)
(* Theorems about Config, for every environment, all settings and files of  *)
(* any length.                                                              *)
(***************************************************************************)
EXTENDS Config, TLAPS

-----------------------------------------------------------------------------
(* The inductive invariant.                                                 *)

\* The lines that were read.
Seen ==
    CASE pc = "secrets" -> line - 1
      [] pc = "dotenv" -> Len(secrets) + line - 1
      [] OTHER -> Len(Text)

InsideFile ==
    /\ line > 0
    /\ pc = "secrets" => line <= Len(secrets) + 1
    /\ pc = "dotenv" => line <= Len(dotenv) + 1

\* So far the environment has the first of the offers that is not empty.
HasFirstOffer == \A k \in Keys : FirstOffer(k, Seen, environ[k])

ReadFromEnviron ==
    pc = "done" => \A k \in Keys : settings[k] = Parsed(k, environ[k])

ConfigInvariant ==
    TypeOK /\ InsideFile /\ HasFirstOffer /\ ReadFromEnviron

-----------------------------------------------------------------------------
(* The readers of lines and of values.                                      *)

\* The empty value is one of its own, and stays what it is when trimmed.
LEMMA UnsetIs ==
    /\ Unset \in Values /\ Unset \notin {" ", "7", "off"}
    /\ Trimmed(Unset) = Unset
BY Zenon DEF Unset, Values, Trimmed

LEMMA TrimmedIsValue == \A v \in Values : Trimmed(v) \in Values
BY UnsetIs DEF Trimmed, Values

\* Every reader understands its value or falls back to the default.
LEMMA ParsedIsMeaning ==
    ASSUME NEW k \in Keys, NEW v \in Values
    PROVE  Parsed(k, v) \in Meanings[Kind[k]]
<1>1. Kind[k] \in {"flag", "number", "secret"}
  BY ConfigAssumption
<1>2. CASE Kind[k] = "flag"
  BY <1>2 DEF Parsed, Meanings
<1>3. CASE Kind[k] = "number"
  BY <1>3 DEF Parsed, Meanings
<1>4. CASE Kind[k] = "secret"
  <2>1. Parsed(k, v) = IF v = Unset THEN Default ELSE v
    BY <1>4 DEF Parsed
  <2>2. Meanings[Kind[k]] = (Values \ {Unset}) \cup {Default}
    BY <1>4 DEF Meanings
  <2> QED BY <2>1, <2>2
<1> QED BY <1>1, <1>2, <1>3, <1>4

\* The lines of ENV_FILE come before those of .env.
LEMMA TextIs ==
    ASSUME TypeOK
    PROVE  /\ Len(Text) = Len(secrets) + Len(dotenv)
           /\ \A i \in 1..Len(secrets) : Text[i] = secrets[i]
           /\ \A i \in 1..Len(dotenv) : Text[Len(secrets) + i] = dotenv[i]
<1>1. secrets \in Seq(Lines) /\ dotenv \in Seq(Lines)
  BY DEF TypeOK
<1> QED BY <1>1 DEF Text

\* A line either assigns a value to a setting or is skipped.
LEMMA LineIs ==
    ASSUME NEW item \in Lines
    PROVE  item # Skipped => item[1].key \in Keys /\ item[1].value \in Values
<1>1. CASE item = Skipped
  BY <1>1
<1>2. CASE item \in {<<a>> : a \in Assignment}
  <2>1. PICK a \in Assignment : item = <<a>>
    BY <1>2
  <2>2. item[1] = a
    BY <2>1
  <2> QED BY <2>2 DEF Assignment
<1> QED BY <1>1, <1>2 DEF Lines

\* One more offer counts if there was none before.
LEMMA NextOffer ==
    ASSUME NEW k, NEW n \in Nat, NEW v, FirstOffer(k, n, v)
    PROVE  FirstOffer(k, n + 1, IF v = Unset THEN Offer(k, n + 1) ELSE v)
<1>1. CASE v = Unset
  <2>1. \A i \in 0..n : Offer(k, i) = Unset
    BY <1>1 DEF FirstOffer
  <2>2. CASE Offer(k, n + 1) = Unset
    <3>1. \A i \in 0..(n + 1) : Offer(k, i) = Unset
      <4>1. \A i \in 0..(n + 1) : i \in 0..n \/ i = n + 1
        OBVIOUS
      <4> QED BY <2>1, <2>2, <4>1
    <3> QED BY <1>1, <2>2, <3>1 DEF FirstOffer
  <2>3. CASE Offer(k, n + 1) # Unset
    <3>1. n + 1 \in 0..(n + 1) /\ (n + 1) - 1 = n
      OBVIOUS
    <3>2. \A j \in 0..((n + 1) - 1) : Offer(k, j) = Unset
      BY <2>1, <3>1
    <3>3. FirstOffer(k, n + 1, Offer(k, n + 1))
      BY <2>3, <3>1, <3>2 DEF FirstOffer
    <3> QED BY <1>1, <3>3
  <2> QED BY <2>2, <2>3
<1>2. CASE v # Unset
  <2>1. PICK i \in 0..n : /\ v = Offer(k, i)
                          /\ \A j \in 0..(i - 1) : Offer(k, j) = Unset
    BY <1>2 DEF FirstOffer
  <2>2. i \in 0..(n + 1)
    OBVIOUS
  <2> QED BY <1>2, <2>1, <2>2 DEF FirstOffer
<1> QED BY <1>1, <1>2

\* What a line does to the environment, setting by setting.
LEMMA LineSets ==
    ASSUME TypeOK, NEW item \in Lines,
           environ' = IF item = Skipped THEN environ ELSE SetUnlessSet(item[1])
    PROVE  /\ environ' \in [Keys -> Values]
           /\ \A k \in Keys : environ'[k] =
                 IF environ[k] # Unset THEN environ[k]
                 ELSE IF Assigns(item, k) THEN Trimmed(item[1].value)
                 ELSE Unset
<1>1. environ \in [Keys -> Values]
  BY DEF TypeOK
<1>2. CASE item = Skipped
  BY <1>1, <1>2 DEF Assigns
<1>3. CASE item # Skipped
  <2>1. item[1].key \in Keys /\ Trimmed(item[1].value) \in Values
    BY <1>3, LineIs, TrimmedIsValue
  <2>2. environ' = SetUnlessSet(item[1])
    BY <1>3
  <2>3. CASE environ[item[1].key] = Unset
    <3>1. environ' =
             [environ EXCEPT ![item[1].key] = Trimmed(item[1].value)]
      BY <2>2, <2>3 DEF SetUnlessSet
    <3> QED BY <1>1, <1>3, <2>1, <2>3, <3>1 DEF Assigns
  <2>4. CASE environ[item[1].key] # Unset
    <3>1. environ' = environ
      BY <2>2, <2>4 DEF SetUnlessSet
    <3> QED BY <1>1, <1>3, <2>4, <3>1 DEF Assigns
  <2> QED BY <2>3, <2>4
<1> QED BY <1>2, <1>3

\* Nobody changes the sources while they are read.
LEMMA SameOffers ==
    ASSUME UNCHANGED sources,
           \A k \in Keys : FirstOffer(k, Seen', environ'[k])
    PROVE  HasFirstOffer'
<1>1. Text' = Text
  BY DEF sources, Text
<1>2. ASSUME NEW k, NEW i PROVE Offer(k, i)' = Offer(k, i)
  BY <1>1 DEF sources, Offer, Assigns
<1>3. ASSUME NEW k \in Keys PROVE FirstOffer(k, Seen, environ[k])'
  BY <1>2 DEF FirstOffer
<1> QED BY <1>3 DEF HasFirstOffer

-----------------------------------------------------------------------------
(* Load.                                                                    *)

LEMMA InitConfig == Init => ConfigInvariant
<1> SUFFICES ASSUME Init PROVE ConfigInvariant
  OBVIOUS
<1>1. /\ given \in Environments
      /\ secrets \in Files(MaxSecrets) /\ dotenv \in Files(MaxDotEnv)
      /\ pc = "secrets" /\ line = 1
      /\ environ = given /\ settings = [k \in Keys |-> Default]
  BY DEF Init
<1>2. secrets \in Seq(Lines) /\ dotenv \in Seq(Lines)
  <2>1. ASSUME NEW n \in Nat, NEW f \in Files(n) PROVE f \in Seq(Lines)
    <3>1. PICK m \in 0..n : f \in [1..m -> Lines]
      BY DEF Files
    <3> QED BY <3>1
  <2> QED BY <1>1, <2>1, ConfigAssumption
<1>3. given \in [Keys -> Values]
  BY <1>1, ConfigAssumption
<1>4. ASSUME NEW k \in Keys PROVE settings[k] \in Meanings[Kind[k]]
  <2>1. Unset \in Values /\ Parsed(k, Unset) = Default
    BY UnsetIs, ConfigAssumption DEF Parsed
  <2> QED BY <1>1, <2>1, ParsedIsMeaning
<1>5. TypeOK
  BY <1>1, <1>2, <1>3, <1>4 DEF TypeOK
<1>6. InsideFile /\ ReadFromEnviron
  BY <1>1, <1>2 DEF InsideFile, ReadFromEnviron
<1>7. HasFirstOffer
  <2>1. Seen = 0
    BY <1>1 DEF Seen
  <2>2. ASSUME NEW k \in Keys PROVE FirstOffer(k, 0, given[k])
    <3>1. Offer(k, 0) = given[k] /\ 0..0 = {0} /\ 0..(0 - 1) = {}
      BY DEF Offer
    <3> QED BY <3>1 DEF FirstOffer
  <2> QED BY <1>1, <2>1, <2>2 DEF HasFirstOffer
<1> QED BY <1>5, <1>6, <1>7 DEF ConfigInvariant

\* A line of either file is the next one of the text.
LEMMA ReadLineStep ==
    ASSUME ConfigInvariant, NEW file \in Seq(Lines), line <= Len(file),
           environ' = IF file[line] = Skipped THEN environ
                      ELSE SetUnlessSet(file[line][1]),
           line' = line + 1, pc' = pc, UNCHANGED <<sources, settings>>,
           \/ pc = "secrets" /\ file = secrets
           \/ pc = "dotenv" /\ file = dotenv
    PROVE  ConfigInvariant'
<1>1. /\ given' = given /\ secrets' = secrets /\ dotenv' = dotenv
      /\ settings' = settings
  BY DEF sources
<1>2. TypeOK /\ InsideFile /\ HasFirstOffer
  BY DEF ConfigInvariant
<1>3. line \in 1..Len(file) /\ file[line] \in Lines /\ line \in Nat
  BY <1>2 DEF TypeOK, InsideFile
<1>4. /\ environ' \in [Keys -> Values]
      /\ \A k \in Keys : environ'[k] =
            IF environ[k] # Unset THEN environ[k]
            ELSE IF Assigns(file[line], k) THEN Trimmed(file[line][1].value)
            ELSE Unset
  BY <1>2, <1>3, LineSets
<1>5. Seen \in Nat /\ Seen' = Seen + 1 /\ Text[Seen + 1] = file[line]
  <2>1. Len(secrets) \in Nat /\ Len(dotenv) \in Nat
    BY <1>2 DEF TypeOK
  <2>2. CASE pc = "secrets" /\ file = secrets
    <3>1. Seen = line - 1 /\ Seen' = line' - 1
      BY <2>2 DEF Seen
    <3> QED BY <1>2, <1>3, <2>2, <3>1, TextIs
  <2>3. CASE pc = "dotenv" /\ file = dotenv
    <3>1. /\ Seen = Len(secrets) + line - 1
          /\ Seen' = Len(secrets) + line' - 1
      BY <1>1, <2>3 DEF Seen
    <3>2. Text[Len(secrets) + line] = dotenv[line]
      BY <1>2, <1>3, <2>3, TextIs
    <3> QED BY <1>3, <2>1, <2>3, <3>1, <3>2
  <2> QED BY <2>2, <2>3
<1>6. TypeOK'
  BY <1>1, <1>2, <1>3, <1>4 DEF TypeOK
<1>7. InsideFile' /\ ReadFromEnviron'
  BY <1>1, <1>3 DEF InsideFile, ReadFromEnviron
<1>8. HasFirstOffer'
  <2> SUFFICES ASSUME NEW k \in Keys
               PROVE  FirstOffer(k, Seen', environ'[k])
    BY <1>1, SameOffers DEF sources
  <2>1. Offer(k, Seen + 1) =
           IF Assigns(file[line], k) THEN Trimmed(file[line][1].value)
           ELSE Unset
    BY <1>5 DEF Offer
  <2>2. environ'[k] =
           IF environ[k] = Unset THEN Offer(k, Seen + 1) ELSE environ[k]
    BY <1>4, <2>1
  <2>3. FirstOffer(k, Seen, environ[k])
    BY <1>2 DEF HasFirstOffer
  <2> HIDE DEF Seen
  <2> QED BY <1>5, <2>2, <2>3, NextOffer
<1> QED BY <1>6, <1>7, <1>8 DEF ConfigInvariant

\* The end of a file changes nothing that was read.
LEMMA EndOfFileStep ==
    ASSUME ConfigInvariant, NEW file \in Seq(Lines), ~(line <= Len(file)),
           environ' = environ, line' = 1, UNCHANGED <<sources, settings>>,
           \/ pc = "secrets" /\ file = secrets /\ pc' = "dotenv"
           \/ pc = "dotenv" /\ file = dotenv /\ pc' = "settings"
    PROVE  ConfigInvariant'
<1>1. /\ given' = given /\ secrets' = secrets /\ dotenv' = dotenv
      /\ settings' = settings
  BY DEF sources
<1>2. TypeOK /\ InsideFile /\ HasFirstOffer
  BY DEF ConfigInvariant
<1>3. Seen' = Seen
  <2>1. Len(secrets) \in Nat /\ Len(dotenv) \in Nat /\ line \in Nat
    BY <1>2 DEF TypeOK
  <2>2. CASE pc = "secrets" /\ file = secrets /\ pc' = "dotenv"
    <3>1. Seen = line - 1 /\ Seen' = Len(secrets) + 1 - 1
      BY <1>1, <2>2 DEF Seen
    <3> QED BY <1>2, <2>1, <2>2, <3>1 DEF InsideFile
  <2>3. CASE pc = "dotenv" /\ file = dotenv /\ pc' = "settings"
    <3>1. Seen = Len(secrets) + line - 1 /\ Seen' = Len(Text')
      BY <1>1, <2>3 DEF Seen
    <3>2. Text' = Text
      BY <1>1 DEF Text
    <3> QED BY <1>2, <2>1, <2>3, <3>1, <3>2, TextIs DEF InsideFile
  <2> QED BY <2>2, <2>3
<1>4. TypeOK'
  BY <1>1, <1>2 DEF TypeOK
<1>5. InsideFile' /\ ReadFromEnviron'
  BY <1>1, <1>2 DEF InsideFile, ReadFromEnviron, TypeOK
<1>6. HasFirstOffer'
  <2> SUFFICES ASSUME NEW k \in Keys
               PROVE  FirstOffer(k, Seen', environ'[k])
    BY <1>1, SameOffers DEF sources
  <2> QED BY <1>2, <1>3 DEF HasFirstOffer
<1> QED BY <1>4, <1>5, <1>6 DEF ConfigInvariant

LEMMA ReadFilesStep == ConfigInvariant /\ ReadFiles => ConfigInvariant'
<1> SUFFICES ASSUME ConfigInvariant, ReadFiles PROVE ConfigInvariant'
  OBVIOUS
<1>1. secrets \in Seq(Lines) /\ dotenv \in Seq(Lines)
  BY DEF ConfigInvariant, TypeOK
<1>2. CASE pc = "secrets" /\ ReadFile(secrets, "dotenv")
  <2>1. CASE line <= Len(secrets)
    BY <1>1, <1>2, <2>1, ReadLineStep DEF ReadFile
  <2>2. CASE ~(line <= Len(secrets))
    BY <1>1, <1>2, <2>2, EndOfFileStep DEF ReadFile
  <2> QED BY <2>1, <2>2
<1>3. CASE pc = "dotenv" /\ ReadFile(dotenv, "settings")
  <2>1. CASE line <= Len(dotenv)
    BY <1>1, <1>3, <2>1, ReadLineStep DEF ReadFile
  <2>2. CASE ~(line <= Len(dotenv))
    BY <1>1, <1>3, <2>2, EndOfFileStep DEF ReadFile
  <2> QED BY <2>1, <2>2
<1> QED BY <1>2, <1>3 DEF ReadFiles

LEMMA ReadSettingsStep == ConfigInvariant /\ ReadSettings => ConfigInvariant'
<1> SUFFICES ASSUME ConfigInvariant, ReadSettings PROVE ConfigInvariant'
  OBVIOUS
<1>1. /\ pc = "settings" /\ pc' = "done"
      /\ settings' = [k \in Keys |-> Parsed(k, environ[k])]
      /\ given' = given /\ secrets' = secrets /\ dotenv' = dotenv
      /\ line' = line /\ environ' = environ
  BY DEF ReadSettings, sources
<1>2. TypeOK /\ InsideFile /\ HasFirstOffer
  BY DEF ConfigInvariant
<1>3. TypeOK'
  <2>1. \A k \in Keys : settings'[k] \in Meanings[Kind[k]]
    BY <1>1, <1>2, ParsedIsMeaning DEF TypeOK
  <2> QED BY <1>1, <1>2, <2>1 DEF TypeOK
<1>4. InsideFile' /\ ReadFromEnviron'
  <2>1. ReadFromEnviron'
    BY <1>1 DEF ReadFromEnviron, Parsed, Trimmed
  <2> QED BY <1>1, <1>2, <2>1 DEF InsideFile
<1>5. HasFirstOffer'
  <2>1. Seen' = Seen
    BY <1>1 DEF Seen, Text
  <2> SUFFICES ASSUME NEW k \in Keys
               PROVE  FirstOffer(k, Seen', environ'[k])
    BY <1>1, SameOffers DEF sources
  <2> QED BY <1>1, <1>2, <2>1 DEF HasFirstOffer
<1> QED BY <1>3, <1>4, <1>5 DEF ConfigInvariant

-----------------------------------------------------------------------------
(* The theorems.                                                            *)

\* Whatever the sources are, at every line the environment has the first of
\* the offers so far (Load, loadDotEnv).
THEOREM LoadCorrect == Spec => []ConfigInvariant
<1>1. Init => ConfigInvariant
  BY InitConfig
<1>2. ConfigInvariant /\ [Next]_vars => ConfigInvariant'
  <2> SUFFICES ASSUME ConfigInvariant, [Next]_vars PROVE ConfigInvariant'
    OBVIOUS
  <2>1. CASE ReadFiles
    BY <2>1, ReadFilesStep
  <2>2. CASE ReadSettings
    BY <2>2, ReadSettingsStep
  <2>3. CASE UNCHANGED vars
    <3>1. /\ given' = given /\ secrets' = secrets /\ dotenv' = dotenv
          /\ pc' = pc /\ line' = line /\ environ' = environ
          /\ settings' = settings
      BY <2>3 DEF vars
    <3>2. Seen' = Seen
      BY <3>1 DEF Seen, Text
    <3>3. HasFirstOffer'
      <4> SUFFICES ASSUME NEW k \in Keys
                   PROVE  FirstOffer(k, Seen', environ'[k])
        BY <3>1, SameOffers DEF sources
      <4> QED BY <3>1, <3>2 DEF ConfigInvariant, HasFirstOffer
    <3> QED BY <3>1, <3>3 DEF ConfigInvariant, TypeOK, InsideFile,
                              ReadFromEnviron, Parsed, Trimmed
  <2> QED BY <2>1, <2>2, <2>3 DEF Next
<1> QED BY <1>1, <1>2, PTL DEF Spec

\* A flag or a number nobody can read is the default (envBool, envInt).
THEOREM TypeCorrect == Spec => []TypeOK
<1>1. ConfigInvariant => TypeOK
  BY DEF ConfigInvariant
<1> QED BY <1>1, LoadCorrect, PTL

\* Each setting is that of the first source that has a value for it, for
\* files of any length (config.go:54-55).
THEOREM SourcesInOrder == Spec => []FirstSourceWins
<1>1. ConfigInvariant => FirstSourceWins
  <2> SUFFICES ASSUME ConfigInvariant, pc = "done", NEW k \in Keys
               PROVE  \E v \in Values : FirstOffer(k, Len(Text), v)
                                        /\ settings[k] = Parsed(k, v)
    BY DEF FirstSourceWins
  <2>1. Seen = Len(Text)
    BY DEF Seen
  <2>2. /\ environ[k] \in Values /\ FirstOffer(k, Len(Text), environ[k])
        /\ settings[k] = Parsed(k, environ[k])
    BY <2>1 DEF ConfigInvariant, TypeOK, HasFirstOffer, ReadFromEnviron
  <2> QED BY <2>2
<1> QED BY <1>1, LoadCorrect, PTL

=============================================================================
