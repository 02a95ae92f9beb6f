----------------------------- MODULE Interpolate -----------------------------
(***************************************************************************)
(* Variable interpolation (internal/resolve/interpolate.go): the layers a  *)
(* file is interpolated against and the six operator forms.  A reference   *)
(* is a whole scalar; its argument is a node of its own, so that           *)
(* `${A:-${B}}` nests.                                                     *)
(***************************************************************************)
EXTENDS ComposeValues

(* An environment is a sequence of layers, the first to define a name      *)
(* wins; `borrowed` marks a layer Compose itself would not consult.        *)
Layer(vals, borrowed) == [vals |-> vals, borrowed |-> borrowed]

Defining(env, n) == {i \in DOMAIN env : n \in DOMAIN env[i].vals}

Lookup(env, n) ==
  IF Defining(env, n) = {} THEN [set |-> FALSE, text |-> <<"">>, borrowed |-> FALSE]
  ELSE LET i == CHOOSE i \in Defining(env, n) : \A j \in Defining(env, n) : i <= j
       IN [set |-> TRUE, text |-> env[i].vals[n], borrowed |-> env[i].borrowed]

(* buildEnv: explicit over host over `.env` over the env files, the last   *)
(* env file first.                                                         *)
BuildEnv(explicit, host, dotenv, envFiles) ==
  (IF explicit = Empty THEN <<>> ELSE <<Layer(explicit, FALSE)>>)
    \o <<Layer(host, FALSE), Layer(dotenv, FALSE)>>
    \o [i \in DOMAIN envFiles |-> Layer(Reverse(envFiles)[i], TRUE)]

(* The notes of one scalar: the names nothing defines, the references no   *)
(* operator of the grammar answers, and whether a required name is missing.*)
Expansion(text, missing, invalid, failed) ==
  [text |-> text, missing |-> missing, invalid |-> invalid, failed |-> failed]

Verb(op) == CASE op \in {":-", "-"} -> "default"
              [] op \in {":+", "+"} -> "alternate"
              [] op \in {":?", "?"} -> "required"
              [] OTHER -> "unknown"
EmptyIsUnset(op) == op \in {":-", ":+", ":?"}

(* interpolate and expandBraced.                                           *)
RECURSIVE Expand(_, _)
Expand(n, env) ==
  IF n.kind # "var" THEN Expansion(n.text, {}, FALSE, FALSE)
  ELSE
  LET name == n.text[1]
      op   == n.text[2]
      got  == Lookup(env, name)
      present == got.set /\ (EmptyIsUnset(op) => ~Blank(got.text))
      arg  == Expand(n.items[1], env)
  IN IF op = ""
     THEN Expansion(got.text, IF got.set THEN {} ELSE {name}, FALSE, FALSE)
     ELSE CASE Verb(op) = "unknown"   -> Expansion(n.text, {}, TRUE, FALSE)
            [] Verb(op) = "alternate" -> IF present THEN arg
                                         ELSE Expansion(<<"">>, {}, FALSE, FALSE)
            [] present                -> Expansion(got.text, {}, FALSE, FALSE)
            [] Verb(op) = "default"   -> arg
            [] OTHER                  -> [arg EXCEPT !.text = <<"">>, !.failed = TRUE]

(* The names that only a borrowed layer supplied (varEnv.fromEnvFile).     *)
RECURSIVE Borrowed(_, _)
Borrowed(n, env) ==
  IF n.kind # "var" THEN {}
  ELSE (IF Lookup(env, n.text[1]).borrowed THEN {n.text[1]} ELSE {})
         \cup UNION {Borrowed(n.items[i], env) : i \in DOMAIN n.items}
=============================================================================
