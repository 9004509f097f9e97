----------------------------- MODULE ReleaseRules -----------------------------
(***************************************************************************)
(* What must hold before a release: the environment check of the release    *)
(* script, the shared pilot check, the workers' own switches, and the file   *)
(* an export writes for a spreadsheet.                                      *)
(***************************************************************************)
EXTENDS Integers, Sequences, SequencesExt, FiniteSets

(* ENVIRONMENT_CONTRACT, by where a name is read and whether a preview needs *)
(* it; a production needs both sets, and the rest only when a feature asks.  *)
Needed == [web |-> [preview |-> {"VITE_PRODUCT_NAME", "VITE_SUPABASE_URL", "VITE_SUPABASE_ANON_KEY",
                                 "VITE_SENTRY_ENVIRONMENT", "VITE_APP_RELEASE"},
                    production |-> {"VITE_CONTACT_PHONE", "VITE_CONTACT_PHONE_DISPLAY", "VITE_TURNSTILE_SITE_KEY",
                                    "VITE_SENTRY_DSN"}],
           driver |-> [preview |-> {},
                       production |-> {"EXPO_PUBLIC_PRODUCT_NAME", "EXPO_PUBLIC_SUPABASE_URL",
                                       "EXPO_PUBLIC_SUPABASE_ANON_KEY", "EXPO_PUBLIC_ADMIN_PHONE",
                                       "EXPO_PUBLIC_SENTRY_DSN", "EXPO_PUBLIC_SENTRY_ENVIRONMENT",
                                       "EXPO_PUBLIC_APP_RELEASE"}],
           server |-> [preview |-> {"SUPABASE_URL"},
                       production |-> {"SUPABASE_SERVICE_ROLE_KEY", "TURNSTILE_SECRET_KEY", "ENQUIRY_RATE_LIMIT_SALT",
                                       "ENQUIRY_INTAKE_ENABLED", "RETENTION_DELETION_ENABLED"}]]
MustBeFalse == {"ENQUIRY_INTAKE_ENABLED", "RETENTION_DELETION_ENABLED"}
conditionalOn == [n \in {"TELEMETRY_CREDENTIAL_PEPPER", "TELEMETRY_RATE_LIMIT_KEY"} |-> "TELEMETRY_INGEST_ENABLED"]
Authority == {"SUPABASE_URL", "SUPABASE_SERVICE_ROLE_KEY"}
FEATURE_DEPENDENCIES ==
    [TELEMETRY_INGEST_ENABLED |-> Authority \cup DOMAIN conditionalOn, M22_RULE_ENGINE_ENABLED |-> Authority,
     M23_COMPARISON_ENGINE_ENABLED |-> Authority, M25_STATISTICAL_ENGINE_ENABLED |-> Authority]
ScopeNames(scope) ==
    Needed[scope].preview \cup Needed[scope].production
    \cup (IF scope = "server" THEN DOMAIN conditionalOn \cup DOMAIN FEATURE_DEPENDENCIES ELSE {})
Names == UNION {ScopeNames(s) : s \in DOMAIN Needed}
Secrets == {"SUPABASE_SERVICE_ROLE_KEY", "TURNSTILE_SECRET_KEY", "ENQUIRY_RATE_LIMIT_SALT"} \cup DOMAIN conditionalOn
AnonKeys == {"VITE_SUPABASE_ANON_KEY", "EXPO_PUBLIC_SUPABASE_ANON_KEY"}
UrlNames == {"VITE_SUPABASE_URL", "SUPABASE_URL", "EXPO_PUBLIC_SUPABASE_URL"}

(* A value is "missing", "placeholder", a switch's "true" or "false", a     *)
(* key ("anon" or "privileged"), a secret long enough ("secret") or not      *)
(* ("short"), a project's address ("p1", "p2") or another text.  An          *)
(* environment also has the public names outside the contract ("others")     *)
(* and the public names whose value holds a server secret ("leaks").         *)
Project(value) == IF value \in {"p1", "p2"} THEN {value} ELSE {}
isRequired(name, mode) ==
    \E s \in DOMAIN Needed : name \in Needed[s].preview \/ (mode = "production" /\ name \in Needed[s].production)
relevantScopes(mode) == {"web", "server"} \cup (IF mode = "production" THEN {"driver"} ELSE {})
safeBoolean(value) == IF value \in {"missing", "true", "false"} THEN value ELSE "invalid"

validateConfiguredValue(name, value) ==
    /\ value \notin {"missing", "placeholder"}
    /\ name \in Secrets => value \notin {"short", "true", "false"}
    /\ name \in AnonKeys => value # "privileged"
    /\ name \in UrlNames => Project(value) # {}

\* The errors one entry of the contract raises.
EntryFails(name, env, mode) ==
    LET value == env.values[name]
        switch == safeBoolean(value)
        required == \/ isRequired(name, mode)
                    \/ name \in DOMAIN conditionalOn /\ env.values[conditionalOn[name]] = "true" IN
    IF name \in MustBeFalse THEN switch \in {"true", "invalid"} \/ (required /\ switch = "missing")
    ELSE IF name \in DOMAIN FEATURE_DEPENDENCIES THEN switch = "invalid"
    ELSE IF value \in {"missing", "placeholder"} THEN required
    ELSE ~validateConfiguredValue(name, value)

\* evaluateEnvironment: every way the environment is refused.
evaluateEnvironment(env, mode) ==
    /\ env.others = {} /\ env.leaks = {}
    /\ \A s \in relevantScopes(mode) : \A n \in ScopeNames(s) : ~EntryFails(n, env, mode)
    /\ Cardinality(UNION {Project(env.values[n]) : n \in {u \in UrlNames : mode = "production"
                                                            \/ u # "EXPO_PUBLIC_SUPABASE_URL"}}) <= 1
    /\ \A f \in DOMAIN FEATURE_DEPENDENCIES : env.values[f] = "true" =>
           \A d \in FEATURE_DEPENDENCIES[f] : validateConfiguredValue(d, env.values[d])

\* buildReleaseManifest: what a manifest is written from.
buildReleaseManifest(env, mode, source) ==
    evaluateEnvironment(env, mode) /\ source.sha /\ source.cleanWorktree /\ source.expectedShaMatches

(* The shared pilot check.                                                 *)
webRequiredVariables == {"VITE_PRODUCT_NAME", "VITE_SUPABASE_URL", "VITE_SUPABASE_ANON_KEY"}
driverRequiredVariables == {"EXPO_PUBLIC_PRODUCT_NAME", "EXPO_PUBLIC_SUPABASE_URL", "EXPO_PUBLIC_SUPABASE_ANON_KEY"}
PilotChecks(env, defaults) ==
    {[name |-> n, failure |-> env.values[n]] : n \in {v \in webRequiredVariables \cup driverRequiredVariables :
                                                      env.values[v] \in {"missing", "placeholder"}}}
    \cup {[name |-> n, failure |-> "unsafe_key_name_detected"] : n \in env.others \cap {"VITE_SERVICE_ROLE"}}
    \cup {[name |-> d, failure |-> "unsafe_default"] : d \in {x \in DOMAIN defaults : defaults[x]}}
hasBlockingPilotReadinessIssue(env, defaults, mode) ==
    \E c \in PilotChecks(env, defaults) :
        c.failure \in {"missing", "placeholder"} => mode \in {"preview", "production"}

\* The wrapper of a worker or of the ingestion: it runs only when switched on, and then needs its address and key.
WorkerRuns(feature, env) == env.values[feature] = "true"
WorkerWorks(env) == env.values["SUPABASE_URL"] # "missing" /\ env.values["SUPABASE_SERVICE_ROLE_KEY"] # "missing"

(***************************************************************************)
(* The file of an export.  A cell is a sequence of characters.             *)
(***************************************************************************)
Formula == {"=", "+", "-", "@", "tab", "cr"}
Quoted == {"quote", "comma", "cr", "lf"}
\* The text with every quotation mark doubled.
Doubled(text) ==
    LET upto[n \in 0..Len(text)] ==
            IF n = 0 THEN <<>> ELSE upto[n - 1] \o (IF text[n] = "quote" THEN <<"quote", "quote">> ELSE <<text[n]>>)
    IN  upto[Len(text)]
neutralizeSpreadsheetFormula(cell) ==
    IF cell # <<>> /\ Head(cell) \in Formula THEN <<"apostrophe">> \o cell ELSE cell
escapeCsvCell(cell) ==
    LET text == neutralizeSpreadsheetFormula(cell) IN
    IF ToSet(text) \cap Quoted = {} THEN text
    ELSE <<"quote">> \o Doubled(text) \o <<"quote">>
Joined(parts, separator) ==
    LET upto[n \in 0..Len(parts)] ==
            IF n = 0 THEN <<>> ELSE upto[n - 1] \o (IF n = 1 THEN <<>> ELSE separator) \o parts[n]
    IN  upto[Len(parts)]
CsvLine(row) == Joined([i \in DOMAIN row |-> escapeCsvCell(row[i])], <<"comma">>)
serializeOperationsCsv(rows) ==
    <<"bom">> \o Joined([i \in DOMAIN rows |-> CsvLine(rows[i])], <<"cr", "lf">>) \o <<"cr", "lf">>

\* How a spreadsheet reads it: the reference, after RFC 4180.
StartReading == [rows |-> <<>>, row |-> <<>>, cell |-> <<>>, state |-> "open"]
ReadCharacter(r, c) ==
    LET closed == Append(r.row, r.cell) IN
    IF r.state = "quoted" THEN IF c = "quote" THEN [r EXCEPT !.state = "after"] ELSE [r EXCEPT !.cell = Append(@, c)]
    ELSE IF r.state = "after" /\ c = "quote" THEN [r EXCEPT !.state = "quoted", !.cell = Append(@, c)]
    ELSE IF c = "quote" /\ r.cell = <<>> THEN [r EXCEPT !.state = "quoted"]
    ELSE IF c = "comma" THEN [r EXCEPT !.state = "open", !.row = closed, !.cell = <<>>]
    ELSE IF c = "lf" THEN [rows |-> Append(r.rows, closed), row |-> <<>>, cell |-> <<>>, state |-> "open"]
    ELSE IF c \in {"cr", "bom"} THEN r ELSE [r EXCEPT !.cell = Append(@, c)]
ReadFrom(r, file) ==
    LET after[n \in 0..Len(file)] == IF n = 0 THEN r ELSE ReadCharacter(after[n - 1], file[n])
    IN  after[Len(file)]
SpreadsheetRows(file) == ReadFrom(StartReading, file).rows

normalizeOperationsExportLimit(value) ==
    IF ~value.whole THEN 200 ELSE IF value.n < 1 THEN 1 ELSE IF value.n > 500 THEN 500 ELSE value.n
\* admin_export_operations_v1: the rows it returns of those that match, and whether it left some out.
ExportedRows(matching, limit) ==
    LET fetched == SubSeq(matching, 1, IF Len(matching) > limit THEN limit + 1 ELSE Len(matching)) IN
    [rows |-> IF Len(fetched) > limit THEN SubSeq(fetched, 1, limit) ELSE fetched, truncated |-> Len(fetched) > limit]
validateOperationsExportEnvelope(envelope) == Len(envelope.rows) = envelope.rowCount /\ envelope.rowCount \in 0..500

(***************************************************************************)
(* Properties.                                                             *)
(***************************************************************************)
\* An environment good enough for production is good enough for a preview and for the pilot; the three applications use
\* one project, intake stays off, and every worker that is switched on has its address and its key.
EnvironmentsAreSafe(env) ==
    LET safe == [customerLive |-> FALSE, liveTracking |-> FALSE] IN
    /\ evaluateEnvironment(env, "production") =>
           /\ evaluateEnvironment(env, "preview")
           /\ ~hasBlockingPilotReadinessIssue(env, safe, "production")
           /\ Cardinality({env.values[n] : n \in UrlNames}) = 1
           /\ env.values["ENQUIRY_INTAKE_ENABLED"] = "false"
           /\ env.values["VITE_SUPABASE_ANON_KEY"] # "privileged"
    /\ \A mode \in {"preview", "production"} : evaluateEnvironment(env, mode) =>
           \A f \in DOMAIN FEATURE_DEPENDENCIES : WorkerRuns(f, env) => WorkerWorks(env)

\* A spreadsheet reads back the cells of the export, each as it was or with an apostrophe before a formula, and none
\* begins as a formula.
ExportsReadBack(rows) ==
    LET read == SpreadsheetRows(serializeOperationsCsv(rows)) IN
    /\ read = [i \in DOMAIN rows |-> [j \in DOMAIN rows[i] |-> neutralizeSpreadsheetFormula(rows[i][j])]]
    /\ \A i \in DOMAIN read : \A j \in DOMAIN read[i] : read[i][j] # <<>> => Head(read[i][j]) \notin Formula

\* Whatever limit is asked for, the page accepts what the database answers, and the answer says it is cut exactly when
\* it is.
ExportsAreBounded(value, matching) ==
    LET limit == normalizeOperationsExportLimit(value)
        answer == ExportedRows(matching, limit) IN
    /\ validateOperationsExportEnvelope([rows |-> answer.rows, rowCount |-> Len(answer.rows)])
    /\ answer.truncated <=> Len(answer.rows) < Len(matching)
================================================================================
