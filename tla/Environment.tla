----------------------------- MODULE Environment -----------------------------
(***************************************************************************)
(* The environment of a preview on its way from the dashboard's editor,    *)
(* with its table and its text, through the saved row and the dotenv files *)
(* of the API and of deploy.sh, to the process.                            *)
(*                                                                         *)
(* A value is a sequence of characters: "n" the letter, "bs" a backslash,  *)
(* "dq" a double quote, "nl" a line feed, "digit" any other.               *)
(***************************************************************************)
EXTENDS Naturals, Sequences, FiniteSets, SequencesExt, TLC

CONSTANTS
  EnvKey,     \* keys that KEY_RE accepts
  DraftKey,   \* one that it refuses
  EnvValue,   \* values typed into the table
  Written,    \* values as they are written in a text
  RowLimit    \* bound on rows and lines

NoKey == ""
NoEquals == <<"no =">>   \* stands for the value of a line without a =
Char == {"n", "bs", "dq", "nl", "digit"}

ASSUME EnvironmentAssumption ==
  /\ {DraftKey, NoKey} \cap EnvKey = {} /\ DraftKey # NoKey
  /\ EnvValue \cup Written \subseteq Seq(Char) /\ RowLimit \in Nat \ {0}

VARIABLES
  tab,        \* "table" or "text"
  rows,       \* the rows of the table
  text,       \* the lines of the text
  committed,  \* lastCommitted, which is also the map the page holds
  saved       \* envVars of the row

environmentVars == <<tab, rows, text, committed, saved>>

-----------------------------------------------------------------------------
(* A value in a dotenv file *)

Special == {"bs", "dq", "nl"}
Escaped(c) == CASE c = "bs" -> <<"bs", "bs">> [] c = "dq" -> <<"bs", "dq">>
                [] c = "nl" -> <<"bs", "n">> [] OTHER -> <<c>>

\* Mutant of Escape: the quotes are left out.
EscapeUnquoted(v) == FlattenSeq([n \in DOMAIN v |-> Escaped(v[n])])

Escape(v) ==
  IF v # <<>> /\ ToSet(v) \cap Special = {} THEN v
  ELSE <<"dq">> \o FlattenSeq([n \in DOMAIN v |-> Escaped(v[n])]) \o <<"dq">>

\* v.replace(/\\c/g, by): a backslash before c goes, and c becomes `by`.
Before(v, n) == Cardinality({m \in 1..(n - 1) : \A l \in m..(n - 1) : v[l] = "bs"})
Replaced(v, c, by) ==
  LET pairAt(n) == /\ n \in 1..(Len(v) - 1) /\ v[n] = "bs" /\ v[n + 1] = c
                   /\ c = "bs" => Before(v, n) % 2 = 0 IN
  FlattenSeq([n \in DOMAIN v |-> IF pairAt(n) THEN <<by>>
                                 ELSE IF pairAt(n - 1) THEN <<>> ELSE <<v[n]>>])

Unescape(w) ==
  IF w # <<>> /\ w[1] = "dq" /\ w[Len(w)] = "dq"
  THEN LET inner == SubSeq(w, 2, Len(w) - 1) IN
       Replaced(Replaced(Replaced(inner, "n", "nl"), "dq", "dq"), "bs", "bs")
  ELSE w

-----------------------------------------------------------------------------
(* Maps, rows and texts *)

NoRows == <<[key |-> NoKey, value |-> <<>>]>>
OrNoRows(r) == IF r = <<>> THEN NoRows ELSE r

\* The last one with a key counts, of those at the places P of s.
LastAt(s, P, k) == CHOOSE n \in P : s[n].key = k /\ \A m \in P : s[m].key = k => m <= n
KeysAt(s, P) == {s[n].key : n \in P} \cap EnvKey
RowsToEnvVars(r) == [k \in KeysAt(r, DOMAIN r) |-> r[LastAt(r, DOMAIN r, k)].value]
ParseDotenv(t) ==
  LET lines == {n \in DOMAIN t : t[n].value # NoEquals} IN
  [k \in KeysAt(t, lines) |-> Unescape(t[LastAt(t, lines, k)].value)]

DotenvTextToRows(t) ==
  OrNoRows([n \in DOMAIN t |-> [key |-> t[n].key,
                                value |-> IF t[n].value = NoEquals THEN <<>> ELSE Unescape(t[n].value)]])
LinesOf(row) == IF row.key = NoKey THEN <<>> ELSE <<[key |-> row.key, value |-> Escape(row.value)]>>
RowsToDotenvText(r) == FlattenSeq([n \in DOMAIN r |-> LinesOf(r[n])])

EnvVarsToRows(vars) ==
  LET keys == SetToSeq(DOMAIN vars) IN
  [n \in DOMAIN keys |-> [key |-> keys[n], value |-> vars[keys[n]]]]
EnvVarsToDotenv(vars) == RowsToDotenvText(EnvVarsToRows(vars))

-----------------------------------------------------------------------------
(* EnvEditor *)

ApplyRows(next) ==
  /\ rows' = OrNoRows(next)
  /\ text' = RowsToDotenvText(next)
  /\ committed' = RowsToEnvVars(next)
  /\ UNCHANGED <<tab, saved>>

TypeKey(n, k) == tab = "table" /\ n \in DOMAIN rows /\ ApplyRows([rows EXCEPT ![n].key = k])
TypeValue(n, v) == tab = "table" /\ n \in DOMAIN rows /\ ApplyRows([rows EXCEPT ![n].value = v])
AddRow == tab = "table" /\ Len(rows) < RowLimit /\ ApplyRows(rows \o NoRows)
DropRow(n) == tab = "table" /\ n \in DOMAIN rows /\ ApplyRows(RemoveAt(rows, n))

ApplyText(raw) ==
  /\ text' = raw /\ rows' = DotenvTextToRows(raw) /\ committed' = ParseDotenv(raw)
  /\ UNCHANGED saved
TypeText(raw) == tab = "text" /\ ApplyText(raw) /\ UNCHANGED tab
LoadFile(raw) == ApplyText(raw) /\ tab' = "text"

SwitchMode ==
  /\ tab' = IF tab = "text" THEN "table" ELSE "text"
  /\ IF tab = "text" THEN rows' = DotenvTextToRows(text) /\ UNCHANGED text
     ELSE text' = RowsToDotenvText(rows) /\ UNCHANGED rows
  /\ UNCHANGED <<committed, saved>>

\* patchInstance with the page's map, which the answer sets again.
SaveEnv == saved' = committed /\ UNCHANGED <<tab, rows, text, committed>>

\* The page polls the row while it changes, and sets the map it shows.
ReloadEnv ==
  /\ saved # committed /\ committed' = saved
  /\ text' = EnvVarsToDotenv(saved) /\ rows' = OrNoRows(EnvVarsToRows(saved))
  /\ UNCHANGED <<tab, saved>>

TextLine == [key : EnvKey \cup {DraftKey}, value : Written \cup {NoEquals}]
Texts == {t \in SeqOf(TextLine, RowLimit) :
            \A m, n \in DOMAIN t : m # n /\ t[m].value = NoEquals => t[m].key # t[n].key}

EnvironmentInit ==
  /\ tab = "table" /\ rows = NoRows /\ text = <<>>
  /\ committed = <<>> /\ saved = <<>>

EnvironmentNext ==
  \/ \E n \in 1..RowLimit :
       \/ \E k \in EnvKey \cup {DraftKey, NoKey} : TypeKey(n, k)
       \/ \E v \in EnvValue : TypeValue(n, v)
       \/ DropRow(n)
  \/ \E raw \in Texts : TypeText(raw) \/ LoadFile(raw)
  \/ AddRow \/ SwitchMode \/ SaveEnv \/ ReloadEnv

EnvironmentSpec == EnvironmentInit /\ [][EnvironmentNext]_environmentVars

-----------------------------------------------------------------------------
(* From the row to the process: runCoreDeployScript writes the merge of the *)
(* project's map and the row's, deploy.sh reads it and merges it into that  *)
(* of previa.yaml and writes the result, which is read for pm2 over the     *)
(* checkout's .env.                                                         *)

Over(low, high) == [k \in DOMAIN low \cup DOMAIN high |-> IF k \in DOMAIN high THEN high[k] ELSE low[k]]
Through(vars) == [k \in DOMAIN vars |-> Unescape(Escape(vars[k]))]
PortKey == "PORT"
PortValue == <<"digit">>

\* Mutant of MergeAppEnv: previa.yaml wins.
MergeYamlWins(layers, vars) == Over(Through(Over(layers.project, vars)), layers.yaml)
MergeAppEnv(layers, vars) == Over(layers.yaml, Through(Over(layers.project, vars)))
Pm2Env(layers, vars) ==
  Over(Over(layers.checkout, Through(MergeAppEnv(layers, vars))), [k \in {PortKey} |-> PortValue])

\* docker run --env-file takes what is written after the = as it stands.
DockerEnv(layers, vars) ==
  LET merged == MergeAppEnv(layers, vars) IN [k \in DOMAIN merged |-> Escape(merged[k])]

-----------------------------------------------------------------------------
\* Type invariant: rows and lines within the bound, maps over valid keys.
EnvironmentTypeOK ==
  /\ tab \in {"table", "text"} /\ Len(rows) \in 1..RowLimit /\ Len(text) \in 0..RowLimit
  /\ \A n \in DOMAIN rows : rows[n].key \in EnvKey \cup {DraftKey, NoKey}
  /\ \A n \in DOMAIN text : text[n].key \in EnvKey \cup {DraftKey}
  /\ DOMAIN committed \subseteq EnvKey /\ DOMAIN saved \subseteq EnvKey

NoBackslash(v) == "bs" \notin ToSet(v)
Shown == IF tab = "table" THEN RowsToEnvVars(rows) ELSE ParseDotenv(text)

\* What would be saved is what is shown, in the table and in the text, through
\* edits of either, files, switches and reloads, for values without a backslash;
\* beside it at most keys are shown that have no value yet.  (EnvEditor.tsx)
ShownIsCommitted ==
  /\ \A k \in DOMAIN committed :
       NoBackslash(committed[k]) => k \in DOMAIN Shown /\ Shown[k] = committed[k]
  /\ \A k \in DOMAIN Shown \ DOMAIN committed : Shown[k] = <<>>

Layer(keys, c) == [k \in keys |-> <<c>>]
Layers == [checkout : {<<>>, Layer(EnvKey, "n")}, yaml : {<<>>, Layer(EnvKey, "dq")},
           project : {<<>>, Layer(EnvKey, "nl")}]

\* A process is started with what was saved for its preview over the project's
\* map, previa.yaml and the checkout, whatever was typed, although each value is
\* written and read twice on the way: under pm2 any value without a backslash,
\* and the port under PORT; under docker those that no file puts in quotes.
ProcessGetsSettings ==
  \A layers \in Layers :
    LET wanted == Over(Over(Over(layers.checkout, layers.yaml), layers.project), saved)
        docker == Over(Over(layers.yaml, layers.project), saved) IN
    /\ Pm2Env(layers, saved)[PortKey] = PortValue
    /\ \A k \in DOMAIN wanted \ {PortKey} :
         NoBackslash(wanted[k]) => Pm2Env(layers, saved)[k] = wanted[k]
    /\ \A k \in DOMAIN docker :
         docker[k] # <<>> /\ ToSet(docker[k]) \cap Special = {} => DockerEnv(layers, saved)[k] = docker[k]

=============================================================================
