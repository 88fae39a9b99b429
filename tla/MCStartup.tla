----------------------------- MODULE MCStartup -----------------------------
(* An instance of Startup for TLC.                                         *)
EXTENDS Startup, TLC

MCPorts == {DefaultPort, "80", "9001"}

MCValues ==
  [PORT |-> {None, "9001", "http", NonUnicode},
   RAZORPAY_KEY_ID |-> {None, "id", ""},
   RAZORPAY_KEY_SECRET |-> {None, "key"},
   RAZORPAY_MODE |-> {None, "live", "prod", NonUnicode},
   RAZORPAY_BASE_URL |-> {None, "proxy", NonUnicode},
   RAZORPAY_WEBHOOK_SECRET |-> {None, "hook"}]

\* Two keys or more are set in the environment, but for one or two of them.
MCEnvs ==
  LET keyed == [k \in KnownKeys |-> CASE k = "RAZORPAY_KEY_ID" -> "id"
                                      [] k = "RAZORPAY_KEY_SECRET" -> "key"
                                      [] OTHER -> None]
  IN  {[k \in KnownKeys |-> None]}
        \cup UNION {{[keyed EXCEPT ![k] = v] : v \in MCValues[k]} : k \in KnownKeys}

MCEdits ==
  {<<Setting("PORT", "9001"), Setting("RAZORPAY_KEY_ID", "mine"),
     Setting("RAZORPAY_KEY_SECRET", "secret"), Setting("RAZORPAY_MODE", "live")>>,
   <<Setting("PORT", "http"), Setting("OTHER", "x")>>,
   <<Setting("PORT", "9001"), Malformed>>,
   <<Setting("PORT", "9001"), Setting("PORT", ""), Skipped>>}

MCSymmetry == Permutations(Inits)
=============================================================================
