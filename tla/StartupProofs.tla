---------------------------- MODULE StartupProofs ----------------------------
(***************************************************************************)
(* What `aiter-server init` leaves behind and what a server makes of it,   *)
(* for every environment, every edit and any number of processes.          *)
(***************************************************************************)
EXTENDS Startup, TLAPS

\* What an init writes, from its first write to its last.
Written == TornTemplates \cup {Text(Template)}

\* The largest of one number is that number.
LEMMA MaxOfOne == \A n \in Nat : Max({n}) = n
  BY DEF Max
-----------------------------------------------------------------------------
(* What a template, whole or torn, gives                                   *)

\* The lines of the template.
LEMMA TemplateLines ==
  /\ DOMAIN Template = 1 .. 8 /\ Len(Template) = 8
  /\ Template[1] = Skipped /\ Template[2] = Setting("PORT", DefaultPort)
  /\ Template[3] = Skipped /\ Template[4] = Setting("RAZORPAY_KEY_ID", "")
  /\ Template[5] = Setting("RAZORPAY_KEY_SECRET", "")
  /\ Template[6] = Setting("RAZORPAY_MODE", "sandbox")
  /\ Template[7] = Skipped /\ Template[8] = Setting("RAZORPAY_WEBHOOK_SECRET", "")
  BY DEF Template

\* The parts of a setting.
LEMMA SettingParts ==
  ASSUME NEW k, NEW v
  PROVE  /\ Setting(k, v).kind = "setting"
         /\ Setting(k, v).key = k /\ Setting(k, v).value = v
  BY DEF Setting

\* A setting is not skipped.
LEMMA NotSkipped ==
  ASSUME NEW line, line.kind = "setting"
  PROVE  line # Skipped
  BY DEF Skipped

\* Nor is it a line without an "=".
LEMMA NotMalformed ==
  ASSUME NEW line, line.kind = "setting"
  PROVE  line # Malformed
  BY DEF Malformed

\* The positions of the comments and of the settings.
LEMMA Positions == \A i \in 1 .. 8 : i \notin {1, 3, 7} => i \in {2, 4, 5, 6, 8}
  OBVIOUS

\* The settings of the template.
LEMMA TemplateSettings ==
  /\ \A i \in {1, 3, 7} : Template[i].kind = "skipped"
  /\ \A i \in {2, 4, 5, 6, 8} : Template[i].kind = "setting"
  /\ \A i \in {4, 5, 8} : Template[i].value = ""
  /\ Template[2].key = "PORT" /\ Template[2].value = DefaultPort
  /\ Template[6].key = "RAZORPAY_MODE" /\ Template[6].value = "sandbox"
  <1>1. /\ Template[1].kind = "skipped" /\ Template[3].kind = "skipped"
        /\ Template[7].kind = "skipped"
    BY DEF Template, Skipped
  <1>2. /\ Template[2].kind = "setting" /\ Template[4].kind = "setting"
        /\ Template[5].kind = "setting" /\ Template[6].kind = "setting"
        /\ Template[8].kind = "setting"
    BY DEF Template, Setting
  <1>3. Template[4].value = "" /\ Template[5].value = "" /\ Template[8].value = ""
    BY DEF Template, Setting
  <1>4. /\ Template[2].key = "PORT" /\ Template[2].value = DefaultPort
        /\ Template[6].key = "RAZORPAY_MODE" /\ Template[6].value = "sandbox"
    BY DEF Template, Setting
  <1> QED BY <1>1, <1>2, <1>3, <1>4

\* Eight elements of a set make a sequence over it.
LEMMA EightLines ==
  ASSUME NEW S, NEW a \in S, NEW b \in S, NEW c \in S, NEW d \in S,
         NEW e \in S, NEW f \in S, NEW g \in S, NEW h \in S
  PROVE  <<a, b, c, d, e, f, g, h>> \in Seq(S)
  OBVIOUS

\* The first lines of a sequence, and one more.
LEMMA CutSequence ==
  ASSUME NEW S, NEW s \in Seq(S), NEW n \in 1 .. Len(s), NEW x \in S
  PROVE  /\ DOMAIN (SubSeq(s, 1, n - 1) \o <<x>>) = 1 .. n
         /\ (SubSeq(s, 1, n - 1) \o <<x>>)[n] = x
         /\ \A i \in 1 .. n - 1 : (SubSeq(s, 1, n - 1) \o <<x>>)[i] = s[i]
  <1>1. SubSeq(s, 1, n - 1) \in Seq(S) /\ Len(SubSeq(s, 1, n - 1)) = n - 1
    OBVIOUS
  <1>2. \A i \in 1 .. n - 1 : SubSeq(s, 1, n - 1)[i] = s[i]
    OBVIOUS
  <1>3. <<x>> \in Seq(S) /\ Len(<<x>>) = 1 /\ <<x>>[1] = x
    OBVIOUS
  <1> QED BY <1>1, <1>2, <1>3

\* What a line at position i can be: the template's, or what is left of it.
LineAt(i) == {Template[i]} \cup Cut(Template[i])

\* The lines of a file an init wrote that can be read.
LEMMA WrittenLines ==
  ASSUME NEW text \in Written, text.kind # "unreadable"
  PROVE  /\ DOMAIN text.lines \subseteq 1 .. 8
         /\ \A i \in DOMAIN text.lines : text.lines[i] \in LineAt(i)
  <1>1. CASE text = Text(<<>>)
    <2>1. text.lines = <<>>
      BY <1>1 DEF Text
    <2>2. DOMAIN text.lines = {}
      BY <2>1
    <2> QED BY <2>2
  <1>2. CASE text = Text(Template)
    BY <1>2, TemplateLines DEF Text, LineAt
  <1>3. CASE text = Unreadable
    BY <1>3 DEF Unreadable
  <1>4. ASSUME NEW n \in DOMAIN Template, NEW line \in Cut(Template[n]),
               text = Text(SubSeq(Template, 1, n - 1) \o <<line>>)
        PROVE  /\ DOMAIN text.lines \subseteq 1 .. 8
               /\ \A i \in DOMAIN text.lines : text.lines[i] \in LineAt(i)
    <2> DEFINE lines == SubSeq(Template, 1, n - 1) \o <<line>>
               All == {line, Skipped, Setting("PORT", DefaultPort),
                       Setting("RAZORPAY_KEY_ID", ""), Setting("RAZORPAY_KEY_SECRET", ""),
                       Setting("RAZORPAY_MODE", "sandbox"),
                       Setting("RAZORPAY_WEBHOOK_SECRET", "")}
    <2>1. Template \in Seq(All) /\ line \in All
      <3>1. /\ Skipped \in All /\ Setting("PORT", DefaultPort) \in All
            /\ Setting("RAZORPAY_KEY_ID", "") \in All
            /\ Setting("RAZORPAY_KEY_SECRET", "") \in All
            /\ Setting("RAZORPAY_MODE", "sandbox") \in All
            /\ Setting("RAZORPAY_WEBHOOK_SECRET", "") \in All /\ line \in All
        OBVIOUS
      <3>2. Template = <<Skipped, Setting("PORT", DefaultPort), Skipped,
                         Setting("RAZORPAY_KEY_ID", ""), Setting("RAZORPAY_KEY_SECRET", ""),
                         Setting("RAZORPAY_MODE", "sandbox"), Skipped,
                         Setting("RAZORPAY_WEBHOOK_SECRET", "")>>
        BY DEF Template
      <3> HIDE DEF All
      <3> QED BY <3>1, <3>2, EightLines
    <2>2. n \in 1 .. 8 /\ Len(Template) = 8
      BY TemplateLines
    <2> HIDE DEF All
    <2>3. /\ DOMAIN lines = 1 .. n /\ lines[n] = line
          /\ \A i \in 1 .. n - 1 : lines[i] = Template[i]
      <3>1. n \in 1 .. Len(Template)
        BY <2>2
      <3> QED BY <2>1, <3>1, CutSequence
    <2>4. text.lines = lines
      BY <1>4 DEF Text
    <2> HIDE DEF lines
    <2> QED BY <2>2, <2>3, <2>4 DEF LineAt
  <1> QED BY <1>1, <1>2, <1>3, <1>4 DEF Written, TornTemplates

\* What the lines of a template, whole or torn, set.
LEMMA SettingsAt ==
  ASSUME NEW i \in 1 .. 8, NEW line \in LineAt(i), line.kind = "setting",
         line.value # ""
  PROVE  \/ i = 2 /\ line.key = "PORT"
         \/ i = 6 /\ line.key = "RAZORPAY_MODE" /\ line.value \in {"sandbox", "sand"}
  <1>1. Shorter("") = {""} /\ Shorter("sandbox") = {"", "sand"}
    BY DEF Shorter, DefaultPort
  <1>2. \/ line = Template[i]
        \/ Template[i].kind = "setting" /\ \E v \in Shorter(Template[i].value) :
             line = Setting(Template[i].key, v)
    <2>1. line # Skipped
      BY NotSkipped
    <2>2. line # Malformed
      BY NotMalformed
    <2> QED BY <2>1, <2>2 DEF LineAt, Cut
  <1>3. /\ Template[i].kind = "setting" /\ line.key = Template[i].key
        /\ line.value \in {Template[i].value} \cup Shorter(Template[i].value)
    <2>1. CASE line = Template[i]
      <3>1. Template[i].kind = "setting"
        BY <2>1
      <3> QED BY <2>1, <3>1
    <2>2. ASSUME Template[i].kind = "setting", NEW v \in Shorter(Template[i].value),
                 line = Setting(Template[i].key, v)
          PROVE  line.key = Template[i].key /\ line.value = v
      <3>1. /\ Setting(Template[i].key, v).key = Template[i].key
            /\ Setting(Template[i].key, v).value = v
        BY SettingParts
      <3> QED BY <2>2, <3>1
    <2> QED BY <1>2, <2>1, <2>2
  <1>4. i \in {2, 4, 5, 6, 8}
    <2>1. i \notin {1, 3, 7}
      BY <1>3, TemplateSettings
    <2> QED BY <2>1, Positions
  <1>5. i \notin {4, 5, 8}
    <2>1. ASSUME i \in {4, 5, 8} PROVE line.value \in {""} \cup Shorter("")
      BY <1>3, <2>1, TemplateSettings
    <2> QED BY <1>1, <2>1
  <1>6. CASE i = 2
    BY <1>3, <1>6, TemplateSettings
  <1>7. CASE i = 6
    <2>1. line.key = "RAZORPAY_MODE" /\ line.value \in {"sandbox"} \cup Shorter("sandbox")
      BY <1>3, <1>7, TemplateSettings
    <2> QED BY <1>1, <1>7, <2>1
  <1> QED BY <1>4, <1>5, <1>6, <1>7

\* A file an init wrote gives a mode at most, which is that of a sandbox or cut
\* off.
LEMMA WrittenGives ==
  ASSUME NEW text \in Written, text.kind # "unreadable", NEW key \in RazorpayKeys
  PROVE  \/ Given(text, key) = None
         \/ key = "RAZORPAY_MODE" /\ Given(text, key) \in {"sandbox", "sand"}
  <1> DEFINE at == {i \in DOMAIN text.lines : /\ text.lines[i].kind = "setting"
                                               /\ text.lines[i].key = key
                                               /\ text.lines[i].value # ""}
  <1>1. \A i \in at : /\ i = 6 /\ key = "RAZORPAY_MODE"
                      /\ text.lines[i].value \in {"sandbox", "sand"}
    BY WrittenLines, SettingsAt DEF RazorpayKeys
  <1>2. CASE at = {}
    BY <1>2 DEF Given
  <1>3. CASE at # {}
    <2>1. at = {6} /\ key = "RAZORPAY_MODE" /\ text.lines[6].value \in {"sandbox", "sand"}
      BY <1>1, <1>3
    <2>2. Given(text, key) = text.lines[Max(at)].value
      BY <1>3 DEF Given
    <2>3. Max(at) = 6
      BY <2>1, MaxOfOne
    <2> QED BY <2>1, <2>2, <2>3
  <1> QED BY <1>2, <1>3

\* Without lines there is nothing to find.
LEMMA EmptyGives ==
  ASSUME NEW text, text.lines = <<>>, NEW key
  PROVE  Given(text, key) = None
  BY DEF Given

\* The whole template gives the mode and the port a server has by default.
LEMMA TemplateGives ==
  /\ Given(Text(Template), "RAZORPAY_MODE") = "sandbox"
  /\ Given(Text(Template), "PORT") = DefaultPort
  <1> DEFINE at(key) == {i \in DOMAIN Template : /\ Template[i].kind = "setting"
                                                 /\ Template[i].key = key
                                                 /\ Template[i].value # ""}
  <1>1. at("RAZORPAY_MODE") = {6} /\ at("PORT") = {2}
    <2>1. ASSUME NEW i \in DOMAIN Template, Template[i].kind = "setting",
                 Template[i].value # ""
          PROVE  i \in {2, 6}
      <3>1. i \in 1 .. 8
        BY TemplateLines
      <3>2. i \notin {1, 3, 7} /\ i \notin {4, 5, 8}
        BY <2>1, TemplateSettings
      <3> QED BY <3>1, <3>2
    <2>2. /\ at("RAZORPAY_MODE") \subseteq {2, 6} /\ at("PORT") \subseteq {2, 6}
          /\ 2 \in DOMAIN Template /\ 6 \in DOMAIN Template
      <3>1. ASSUME NEW key, NEW i \in at(key) PROVE i \in {2, 6}
        BY <2>1
      <3>2. 2 \in DOMAIN Template /\ 6 \in DOMAIN Template
        <4>1. DOMAIN Template = 1 .. 8
          BY TemplateLines
        <4> QED BY <4>1
      <3> HIDE DEF at
      <3> QED BY <3>1, <3>2
    <2>3. 6 \in at("RAZORPAY_MODE") /\ 2 \in at("PORT")
      BY <2>2, TemplateSettings DEF DefaultPort
    <2>4. 2 \notin at("RAZORPAY_MODE") /\ 6 \notin at("PORT")
      BY TemplateSettings
    <2> HIDE DEF at
    <2> QED BY <2>2, <2>3, <2>4
  <1>2. Max({6}) = 6 /\ Max({2}) = 2
    BY MaxOfOne
  <1>3. \A key : at(key) # {} =>
          Given(Text(Template), key) = Template[Max(at(key))].value
    BY DEF Given, Text
  <1> HIDE DEF at
  <1>4. Given(Text(Template), "RAZORPAY_MODE") = Template[6].value
    <2>1. Given(Text(Template), "RAZORPAY_MODE") = Template[Max({6})].value
      BY <1>1, <1>3
    <2> QED BY <1>2, <2>1
  <1>5. Given(Text(Template), "PORT") = Template[2].value
    <2>1. Given(Text(Template), "PORT") = Template[Max({2})].value
      BY <1>1, <1>3
    <2> QED BY <1>2, <2>1
  <1> QED BY <1>4, <1>5, TemplateSettings
-----------------------------------------------------------------------------
(* What a server makes of it                                               *)

\* What the environment gives wins; without a file it is all there is.
LEMMA NoFileResolves ==
  ASSUME NEW env, NEW key
  PROVE  Resolve(env, NoFile, key) = Var(env, key)
  BY EmptyGives DEF Resolve, NoFile

\* The settings of a server, one by one.
LEMMA Loaded ==
  ASSUME NEW env, NEW text
  PROVE  \A key \in RazorpayKeys : Load(env, text).razorpay[key] = Resolve(env, text, key)
  BY DEF Load

\* Settings that agree but for a mode that is not given or a sandbox's.
LEMMA SameRazorpay ==
  ASSUME NEW s, NEW t,
         \A key \in RazorpayKeys \ {"RAZORPAY_MODE"} : s[key] = t[key],
         \/ s["RAZORPAY_MODE"] = t["RAZORPAY_MODE"]
         \/ s["RAZORPAY_MODE"] = "sandbox" /\ t["RAZORPAY_MODE"] = None
  PROVE  ToRazorpayConfig(s) = ToRazorpayConfig(t)
  <1>1. /\ s["RAZORPAY_KEY_ID"] = t["RAZORPAY_KEY_ID"]
        /\ s["RAZORPAY_KEY_SECRET"] = t["RAZORPAY_KEY_SECRET"]
        /\ s["RAZORPAY_BASE_URL"] = t["RAZORPAY_BASE_URL"]
        /\ s["RAZORPAY_WEBHOOK_SECRET"] = t["RAZORPAY_WEBHOOK_SECRET"]
    BY DEF RazorpayKeys
  <1>2. ModeOf(s["RAZORPAY_MODE"]) = ModeOf(t["RAZORPAY_MODE"])
    BY NoneAssumption DEF ModeOf
  <1>3. s["RAZORPAY_MODE"] \in {None, "sandbox", "live"}
          <=> t["RAZORPAY_MODE"] \in {None, "sandbox", "live"}
    OBVIOUS
  <1> QED BY <1>1, <1>2, <1>3 DEF ToRazorpayConfig, Razorpay

\* A payment call of a server that was started with what an init wrote.
LEMMA WrittenPayments ==
  ASSUME NEW env, NEW text \in Written, text.kind # "unreadable"
  PROVE  LET s == Load(env, text).razorpay
             t == Load(env, NoFile).razorpay
         IN  /\ ToRazorpayConfig(s) \in {ConfigError, ToRazorpayConfig(t)}
             /\ Given(text, "RAZORPAY_MODE") # "sand" =>
                  ToRazorpayConfig(s) = ToRazorpayConfig(t)
  <1> DEFINE s == Load(env, text).razorpay
             t == Load(env, NoFile).razorpay
  <1>1. /\ \A key \in RazorpayKeys : s[key] = Resolve(env, text, key)
        /\ \A key \in RazorpayKeys : t[key] = Var(env, key)
    BY Loaded, NoFileResolves
  <1> HIDE DEF s, t
  <1>2. \A key \in RazorpayKeys \ {"RAZORPAY_MODE"} : s[key] = t[key]
    BY <1>1, WrittenGives DEF Resolve
  <1>3. \/ s["RAZORPAY_MODE"] = t["RAZORPAY_MODE"]
        \/ /\ t["RAZORPAY_MODE"] = None
           /\ s["RAZORPAY_MODE"] = Given(text, "RAZORPAY_MODE")
           /\ s["RAZORPAY_MODE"] \in {"sandbox", "sand"}
    BY <1>1, WrittenGives DEF Resolve, RazorpayKeys
  <1>4. CASE s["RAZORPAY_MODE"] = t["RAZORPAY_MODE"]
    <2>1. ToRazorpayConfig(s) = ToRazorpayConfig(t)
      BY <1>2, <1>4, SameRazorpay
    <2> QED BY <2>1 DEF s, t
  <1>5. CASE s["RAZORPAY_MODE"] = "sandbox" /\ t["RAZORPAY_MODE"] = None
    <2>1. ToRazorpayConfig(s) = ToRazorpayConfig(t)
      BY <1>2, <1>5, SameRazorpay
    <2> QED BY <2>1 DEF s, t
  <1>6. CASE s["RAZORPAY_MODE"] = "sand" /\ Given(text, "RAZORPAY_MODE") = "sand"
    <2>1. ToRazorpayConfig(s) = ConfigError
      BY <1>6, NoneAssumption DEF ToRazorpayConfig
    <2> QED BY <1>6, <2>1 DEF s, t
  <1> QED BY <1>3, <1>4, <1>5, <1>6
-----------------------------------------------------------------------------
(* The inductive invariant                                                 *)

\* What is in a file is known by its author.
FileKnown ==
  /\ author \in Inits => file \in Written
  /\ \A p \in Inits : inits[p] = "wrote" /\ author = p => file = Text(Template)

\* A server works with what it read when it was started.
ServerLoaded ==
  server # Off =>
    /\ server.env \in Envs /\ server.read \in Files \cup {Unreadable}
    /\ Loads(server.env, server.read)
    /\ server.config = Load(server.env, server.read)
    /\ server.from \in Inits => server.read \in Written

StartupInv ==
  /\ inits \in [Inits -> {"idle", "created", "wrote", "failed"}]
  /\ file \in Files \cup {Unreadable}
  /\ FileKnown
  /\ ServerLoaded

\* At first the operator is the only author.
LEMMA InvInit == Init => StartupInv
  BY OperatorAssumption DEF Init, StartupInv, FileKnown, ServerLoaded, Files

\* Every step of an init, the operator and a run keeps the invariant.
LEMMA InvNext == StartupInv /\ [Next]_vars => StartupInv'
  <1> SUFFICES ASSUME StartupInv, [Next]_vars PROVE StartupInv'
    OBVIOUS
  <1> USE DEF StartupInv
  <1>1. ASSUME NEW p \in Inits, Create(p) PROVE StartupInv'
    <2>1. Text(<<>>) \in Written /\ Text(<<>>) \in Files
      BY DEF Written, TornTemplates, Files
    <2> QED BY <1>1, <2>1 DEF Create, FileKnown, ServerLoaded
  <1>2. ASSUME NEW p \in Inits, Refuse(p) \/ Abandon(p) \/ Again(p) PROVE StartupInv'
    BY <1>2 DEF Refuse, Abandon, Again, FileKnown, ServerLoaded
  <1>3. ASSUME NEW p \in Inits, WriteRest(p) PROVE StartupInv'
    <2>1. Text(Template) \in Written /\ Text(Template) \in Files
      BY DEF Written, Files
    <2> QED BY <1>3, <2>1 DEF WriteRest, Write, FileKnown, ServerLoaded
  <1>4. ASSUME NEW p \in Inits, NEW text \in TornTemplates, WriteSome(p, text)
        PROVE  StartupInv'
    <2>1. text \in Written /\ text \in Files
      BY DEF Written, Files
    <2> QED BY <1>4, <2>1 DEF WriteSome, Write, FileKnown, ServerLoaded
  <1>5. ASSUME NEW text \in Texts \cup {NoFile}, Replace(text) PROVE StartupInv'
    <2>1. text \in Files
      BY DEF Files
    <2> QED BY <1>5, <2>1, OperatorAssumption DEF Replace, FileKnown, ServerLoaded
  <1>6. ASSUME NEW env \in Envs, Run(env) PROVE StartupInv'
    BY <1>6 DEF Run, FileKnown, ServerLoaded
  <1>7. CASE Stop
    BY <1>7 DEF Stop, FileKnown, ServerLoaded
  <1>8. CASE UNCHANGED vars
    BY <1>8 DEF vars, FileKnown, ServerLoaded
  <1> QED
    BY <1>1, <1>2, <1>3, <1>4, <1>5, <1>6, <1>7, <1>8
    DEF Next, InitCommand, Edit, Unlink, RunFails

\* The invariant holds always.
LEMMA Inductive == Spec => []StartupInv
  BY InvInit, InvNext, PTL DEF Spec
-----------------------------------------------------------------------------
\* Whatever a number of inits do at once, the operator's file is left alone
\* (config.rs, write_template).
THEOREM SecretsAreSafe == Spec => NeverClobbers
  <1> DEFINE Kept == file' # file /\ file # NoFile =>
       \/ author' = Operator
       \/ author \in Inits /\ author' = author /\ inits[author] = "created"
  <1>1. ASSUME Next PROVE Kept
    BY <1>1 DEF Next, InitCommand, Create, Refuse, WriteRest, WriteSome, Write, Abandon,
       Again, Edit, Unlink, Replace, Run, RunFails, Stop, vars
  <1>2. [Next]_vars => [Kept]_vars
    BY <1>1
  <1> QED BY <1>2, PTL DEF Spec, NeverClobbers

\* Without a file, payments are handled as before the loader, in every
\* environment that is Unicode (config.rs, payments/client.rs from_env).
THEOREM LegacyKept == Spec => []AgreesWithLegacy
  <1>1. ASSUME StartupInv PROVE AgreesWithLegacy
    <2> SUFFICES ASSUME server # Off, server.read = NoFile,
                        \A key \in KnownKeys : server.env[key] # NonUnicode
                 PROVE  Payments = ForState(None, server.env)
      BY DEF AgreesWithLegacy
    <2> DEFINE env == server.env
               s == Load(env, NoFile).razorpay
               t == [key \in RazorpayKeys |-> Var(env, key)]
    <2>1. Payments = ToRazorpayConfig(s)
      BY <1>1, SettingsAssumption DEF StartupInv, ServerLoaded, Payments, ForState, Files
    <2>2. s = t
      BY NoFileResolves DEF Load
    <2>3. \A key \in RazorpayKeys : Var(env, key) = env[key] /\ env[key] # NonUnicode
      BY DEF Var, KnownKeys
    <2>4. /\ \A key \in RazorpayKeys : t[key] = env[key] /\ env[key] # NonUnicode
          /\ \A key \in {"RAZORPAY_KEY_ID", "RAZORPAY_KEY_SECRET"} : Var(env, key) = env[key]
          /\ {"RAZORPAY_KEY_ID", "RAZORPAY_KEY_SECRET", "RAZORPAY_MODE", "RAZORPAY_BASE_URL"}
               \subseteq RazorpayKeys
      BY <2>3 DEF RazorpayKeys
    <2>5. ToRazorpayConfig(t) = FromEnv(env)
      <3> HIDE DEF env, t
      <3>1. FromEnv(env) =
              IF \/ None \in {t["RAZORPAY_KEY_ID"], t["RAZORPAY_KEY_SECRET"]}
                 \/ t["RAZORPAY_MODE"] \notin {None, "sandbox", "live"}
              THEN ConfigError ELSE Razorpay(t)
        BY <2>4 DEF FromEnv, t
      <3> QED BY <3>1 DEF ToRazorpayConfig
    <2> QED BY <2>1, <2>2, <2>5 DEF ForState
  <1> QED BY <1>1, Inductive, PTL

\* A template changes nothing about payments, whether it is whole, empty or cut
\* off, except that a mode that was cut off is an error (config.rs,
\* template_contents).
THEOREM TemplatesAreNeutral == Spec => []TemplateIsNeutral
  <1>1. ASSUME StartupInv PROVE TemplateIsNeutral
    <2>1. \A p \in Inits : inits[p] = "wrote" /\ author = p => file = Text(Template)
      BY <1>1 DEF StartupInv, FileKnown
    <2>2. ASSUME server # Off, server.from \in Inits
          PROVE  /\ Payments \in
                      {ConfigError, ForState(Load(server.env, NoFile).razorpay, server.env)}
                 /\ server.read \in {Text(<<>>), Text(Template)} => AsWithoutFile
      <3> DEFINE s == Load(server.env, server.read).razorpay
                 t == Load(server.env, NoFile).razorpay
      <3>1. /\ server.env \in Envs /\ server.read \in Written
            /\ server.read \in Files \cup {Unreadable}
            /\ Loads(server.env, server.read)
            /\ server.config = Load(server.env, server.read)
        BY <1>1, <2>2 DEF StartupInv, ServerLoaded
      <3>2. server.read.kind # "unreadable"
        BY <3>1 DEF Loads, Parses
      <3>3. s # None /\ t # None
        BY <3>1, SettingsAssumption DEF Files
      <3>4. Payments = ToRazorpayConfig(s) /\ ForState(t, server.env) = ToRazorpayConfig(t)
        BY <3>1, <3>3 DEF Payments, ForState
      <3>5. /\ ToRazorpayConfig(s) \in {ConfigError, ToRazorpayConfig(t)}
            /\ Given(server.read, "RAZORPAY_MODE") # "sand" =>
                 ToRazorpayConfig(s) = ToRazorpayConfig(t)
        BY <3>1, <3>2, WrittenPayments
      <3>6. ASSUME server.read \in {Text(<<>>), Text(Template)} PROVE AsWithoutFile
        <4>1. /\ Given(server.read, "RAZORPAY_MODE") # "sand"
              /\ Given(server.read, "PORT") \in {None, DefaultPort}
          <5>1. CASE server.read = Text(<<>>)
            <6>1. server.read.lines = <<>>
              BY <5>1 DEF Text
            <6> QED BY <6>1, EmptyGives, NoneAssumption
          <5>2. CASE server.read = Text(Template)
            BY <5>2, TemplateGives
          <5> QED BY <3>6, <5>1, <5>2
        <4>2. ResolvePort(server.env, server.read) = ResolvePort(server.env, NoFile)
          <5>1. Resolve(server.env, NoFile, "PORT") = Var(server.env, "PORT")
            BY NoFileResolves
          <5> QED BY <4>1, <5>1, PortsAssumption DEF ResolvePort, Resolve
        <4>3. server.config.port = Load(server.env, NoFile).port
          BY <3>1, <4>2 DEF Load
        <4> QED BY <3>4, <3>5, <4>1, <4>3 DEF AsWithoutFile
      <3> QED BY <3>4, <3>5, <3>6
    <2> QED BY <2>1, <2>2 DEF TemplateIsNeutral
  <1> QED BY <1>1, Inductive, PTL
=============================================================================
