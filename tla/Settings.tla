------------------------------ MODULE Settings ------------------------------
(***************************************************************************)
(* How the server gets its settings: validateEnv checks the environment    *)
(* and .env together; ConfigModule adds what the process's environment     *)
(* lacks; configuration reads that with readers of its own; the services   *)
(* read the result and connect to the database.                            *)
(*                                                                         *)
(* A variable is the form of its text: what Number, parseInt, trim and     *)
(* truthiness tell apart.  Those of one kind are represented by one:       *)
(* integers whose @Min is positive by PORT, those that may be 0 by         *)
(* REDIS_DB, and the switches, which are off by default, by EMAIL_MOCK.    *)
(***************************************************************************)
EXTENDS FiniteSets

VARIABLES
    boot,       \* how far the start of the server has come
    database,   \* one answers where a DATABASE_URL that is not blank leads
    text,       \* the text of each variable, wherever it is given
    inFile,     \* they are given in .env, not in the environment
    env,        \* what the process's environment holds in the end
    mail        \* what became of the last verification mail

settingsVars == <<boot, database, text, inFile, env, mail>>

-----------------------------------------------------------------------------
Credentials == {"SMTP_HOST", "SMTP_USER", "SMTP_PASS", "SMTP_FROM"}
MailNames == Credentials \cup {"EMAIL_VERIFICATION_URL"}
Secrets == {"JWT_ACCESS_SECRET", "JWT_SECRET"}
Required == {"DATABASE_URL", "ENCRYPTION_KEY"}
Numbers == {"PORT", "REDIS_DB"}
Switches == {"EMAIL_MOCK"}
Modes == {"NODE_ENV"}
Kinds == {MailNames, Secrets, Required, Numbers, Switches \cup Modes}
Names == MailNames \cup Secrets \cup Required \cup Numbers \cup Switches \cup Modes

(* blank has only spaces; a number is plain, out of bounds, in another     *)
(* notation (1e3), or has a unit (30s) or no number at all; production     *)
(* stands for development too, other for what the enum does not have.      *)
Forms(n) ==
    CASE n \in Numbers -> {"unset", "empty", "plain", "outside", "exponent", "unit"}
      [] n \in Switches -> {"unset", "true", "false", "1", "0", "yes"}
      [] n \in Modes -> {"unset", "production", "test", "other"}
      [] OTHER -> {"unset", "empty", "blank", "text"}

(* What ConfigModule adds: the default, or the number that was validated.  *)
Added == {"default", "number"}

SettingsTypeOK ==
    /\ boot \in {"off", "validated", "created", "up", "refused"}
    /\ database \in BOOLEAN
    /\ \A n \in Names : text[n] \in Forms(n) /\ env[n] \in Forms(n) \cup Added
    /\ inFile \in BOOLEAN
    /\ mail \in {"none", "skipped", "sent", "unavailable"}

Usual(n, given) == IF n \in {"JWT_SECRET"} \cup Required \cup given THEN "text" ELSE "unset"

(* The variables of one kind are anything, the others as they often are:   *)
(* with those of the mail or without.                                      *)
SettingsInit ==
    /\ boot = "off" /\ mail = "none" /\ inFile \in BOOLEAN /\ database \in BOOLEAN
    /\ \E kind \in Kinds, given \in {{}, MailNames} :
         \E t \in [kind -> UNION {Forms(n) : n \in kind}] :
           /\ \A n \in kind : t[n] \in Forms(n)
           /\ text = [n \in Names |-> IF n \in kind THEN t[n] ELSE Usual(n, given)]
    /\ env = text

-----------------------------------------------------------------------------
(* validateEnv. *)

(* Number and @Min: the empty text is 0. *)
ValidNumber(n) ==
    text[n] \in {"unset", "plain", "exponent"} \/ (text[n] = "empty" /\ n = "REDIS_DB")

(* IsString and IsOptional take anything, IsNotEmpty not the empty text.   *)
Valid(n) ==
    CASE n \in Numbers -> ValidNumber(n)
      [] n \in Switches -> text[n] # "yes"
      [] n \in Modes -> text[n] # "other"
      [] n \in Required -> text[n] \notin {"unset", "empty"}
      [] OTHER -> TRUE

Set(n) == text[n] = "text"
Truthy(n) == text[n] \notin {"unset", "empty"}

(* The credentials are complete, with the address, or there are none. *)
MailComplete == (\A n \in MailNames : Set(n)) \/ (\A n \in Credentials : ~Set(n))

(* Mutant: one of the secrets is declared. *)
SecretDeclared == \E n \in Secrets : text[n] # "unset"

SecretGiven == \E n \in Secrets : Truthy(n)

Accepted == (\A n \in Names : Valid(n)) /\ MailComplete /\ SecretGiven

(* assignVarsToProcess: what the process's environment does not have yet,  *)
(* numbers as they were understood, and the defaults.                      *)
Assigned(n) ==
    CASE text[n] = "unset" -> IF n \in Numbers \cup Switches \cup Modes THEN "default" ELSE "unset"
      [] text[n] # "unset" /\ inFile /\ n \in Numbers -> "number"
      [] OTHER -> text[n]

Validate ==
    /\ boot = "off"
    /\ boot' = IF Accepted THEN "validated" ELSE "refused"
    /\ env' = IF Accepted THEN [n \in Names |-> Assigned(n)] ELSE env
    /\ UNCHANGED <<database, text, inFile, mail>>

-----------------------------------------------------------------------------
(* configuration and the services. *)

(* ?? passes over what is unset only. *)
AccessSecret == IF env["JWT_ACCESS_SECRET"] # "unset" THEN env["JWT_ACCESS_SECRET"]
                                                      ELSE env["JWT_SECRET"]

(* parseInt agrees with Number on what is written as an integer: 1e3 is 1, *)
(* and the empty text is NaN.                                              *)
ReadAsValidated(n) == env[n] \notin {"exponent", "empty"}

SwitchedOn(n) == env[n] = "true"

SmtpConfigured == \A n \in MailNames : Truthy(n)
HealthSaysMail == env["SMTP_HOST"] = "text"

(* The providers are constructed: AuthService and the strategy refuse an   *)
(* empty secret.                                                           *)
Construct ==
    /\ boot = "validated"
    /\ boot' = IF AccessSecret \in {"unset", "empty"} THEN "refused" ELSE "created"
    /\ UNCHANGED <<database, text, inFile, env, mail>>

(* The modules are initialised before the server listens: $connect throws  *)
(* if there is no database, and on a URL that is blank.                    *)
ConnectDatabase ==
    /\ boot = "created"
    /\ boot' = IF env["DATABASE_URL"] = "text" /\ database THEN "up" ELSE "refused"
    /\ UNCHANGED <<database, text, inFile, env, mail>>

(* Mutant: the environment of the tests is not asked for. *)
MailSkippedIfMocked == SwitchedOn("EMAIL_MOCK")

MailSkipped == env["NODE_ENV"] = "test" \/ SwitchedOn("EMAIL_MOCK")

(* sendVerificationEmail; the transport may fail. *)
SendMail ==
    /\ boot = "up" /\ mail = "none"
    /\ mail' \in IF MailSkipped THEN {"skipped"}
                 ELSE IF SmtpConfigured THEN {"sent", "unavailable"} ELSE {"unavailable"}
    /\ UNCHANGED <<boot, database, text, inFile, env>>

SettingsNext == Validate \/ Construct \/ ConnectDatabase \/ SendMail

SettingsSpec == SettingsInit /\ [][SettingsNext]_settingsVars

-----------------------------------------------------------------------------
(* Properties. *)

(* Once a start is settled, the server is up exactly if its environment is *)
(* valid, the secret that ?? finds is not the empty JWT_ACCESS_SECRET      *)
(* beside a JWT_SECRET (env.validation.ts:229 accepts that, and            *)
(* auth.service.ts:49 does not), and there is a database to connect to     *)
(* (prisma.service.ts:24).                                                 *)
Startable ==
    /\ Accepted
    /\ text["JWT_ACCESS_SECRET"] # "empty"
    /\ text["DATABASE_URL"] = "text" /\ database

StartsIfItCan == boot \in {"up", "refused"} => (boot = "up" <=> Startable)

(* configuration.ts:3 reads once more, and in its own way, what            *)
(* env.validation.ts:213 has accepted.  A number in force is the one that  *)
(* was validated exactly if it was given in .env or is written as an       *)
(* integer; a switch is on exactly if its text is true.                    *)
ValuesKept ==
    /\ \A n \in Numbers : ReadAsValidated(n) <=> inFile \/ text[n] \notin {"exponent", "empty"}
    /\ \A n \in Switches : SwitchedOn(n) <=> text[n] = "true"

(* env.validation.ts:237, email.service.ts:28 and health.service.ts:18     *)
(* each test the mail credentials: once one of them is given, the server   *)
(* can send mail, and its health report says so.  And a mail is skipped in *)
(* the environment of the tests or if it was asked for                     *)
(* (email.service.spec.ts:90 and :101), and never else.                    *)
MailAgrees ==
    /\ (\E n \in Credentials : Set(n)) => SmtpConfigured /\ HealthSaysMail
    /\ mail # "none" =>
         (mail = "skipped" <=> text["NODE_ENV"] = "test" \/ text["EMAIL_MOCK"] = "true")

(* env.validation.ts:213: validation, ConfigModule, configuration and the  *)
(* services test the same texts each in their own way: which of them start *)
(* a server, and on what values it runs.                                   *)
ReadersAgree == StartsIfItCan /\ (boot = "up" => ValuesKept /\ MailAgrees)

=============================================================================
