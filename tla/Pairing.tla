-------------------------------- MODULE Pairing --------------------------------
(***************************************************************************)
(* From a one-time code to the device token: ecpg/pairing.py, the loop     *)
(* _await_token of ecpg/main.py and the form of ecpg/status_server.py.     *)
(*                                                                         *)
(* The cloud (not in src/) accepts a code once and answers with a token;   *)
(* the token of a code is written as the code.  "agent" says where         *)
(* Agent.run stands: before, in or after the POST, asleep for 5 s between  *)
(* two tries, running with its token, or ended, until docker starts the    *)
(* process again (restart: unless-stopped).                                *)
(***************************************************************************)
EXTENDS Naturals, FiniteSets

CONSTANTS
    Code,       \* codes somebody may enter
    NoCode,     \* no code, no token
    Valid,      \* the codes the cloud gave out
    EnvCodes,   \* what ECPG_PAIRING_CODE may be set to
    MaxTries    \* tries of _await_token (60)

ASSUME PairingAssumption ==
    /\ NoCode \notin Code /\ Valid \subseteq Code
    /\ EnvCodes \subseteq Code \cup {NoCode} /\ EnvCodes # {}
    /\ MaxTries \in Nat \ {0}

VARIABLES
    token,    \* kv device_token
    typed,    \* kv pairing_code
    env,      \* settings.pairing_code of this process
    agent,    \* "check", "post", "sleep", "running", "ended"
    code,     \* the code being redeemed
    answer,   \* the cloud's answer: "none" yet, "token", "refused"
    tries,    \* tries of the loop in _await_token that have failed
    used,     \* cloud: the codes redeemed
    lost      \* observer: codes redeemed whose answer did not get through

pairVars == <<token, typed, env, agent, code, answer, tries, used, lost>>

PairingTypeOK ==
    /\ token \in Code \cup {NoCode}
    /\ typed \in Code \cup {NoCode}
    /\ env \in EnvCodes
    /\ agent \in {"check", "post", "sleep", "running", "ended"}
    /\ code \in Code \cup {NoCode}
    /\ answer \in {"none", "token", "refused"}
    /\ tries \in 0..MaxTries
    /\ used \subseteq Valid /\ lost \subseteq Valid

PairingInit ==
    /\ token = NoCode /\ typed = NoCode /\ env \in EnvCodes
    /\ agent = "check" /\ code = NoCode /\ answer = "none" /\ tries = 0
    /\ used = {} /\ lost = {}

-----------------------------------------------------------------------------

\* POST /pair of the status page, which starts before Agent.run and shows the
\* form only without a token; what is entered with one is never read.
EnterCode(c) ==
    /\ agent # "ended" /\ token = NoCode
    /\ typed' = c
    /\ UNCHANGED <<token, env, agent, code, answer, tries, used, lost>>

\* try_pair up to its await.
Redeem(c) == agent' = "post" /\ code' = c /\ answer' = "none"

\* ensure_paired: the token before the environment before the form, whose
\* code is forgotten before it is redeemed.
TypedFirst ==                             \* mutant: the form before the environment
    IF typed # NoCode THEN Redeem(typed) /\ typed' = NoCode
    ELSE IF env # NoCode THEN Redeem(env) /\ typed' = typed
    ELSE agent' = "sleep" /\ UNCHANGED <<typed, code, answer>>
ChooseCode ==
    \/ env # NoCode /\ Redeem(env) /\ typed' = typed
    \/ env = NoCode /\ typed # NoCode /\ Redeem(typed) /\ typed' = NoCode
    \/ env = NoCode /\ typed = NoCode /\ agent' = "sleep" /\ UNCHANGED <<typed, code, answer>>

Paired == token # NoCode

EnsurePaired ==
    /\ agent = "check"
    /\ \/ Paired /\ agent' = "running" /\ tries' = 0 /\ UNCHANGED <<typed, code, answer>>
       \/ ~Paired /\ ChooseCode /\ tries' = tries
    /\ UNCHANGED <<token, env, used, lost>>

CloudRedeems ==
    /\ agent = "post" /\ answer = "none"
    /\ code \in Valid \ used
    /\ used' = used \cup {code}
    /\ answer' = "token"
    /\ UNCHANGED <<token, typed, env, agent, code, tries, lost>>

CloudRefuses ==
    /\ agent = "post" /\ answer = "none"
    /\ code \notin Valid \ used
    /\ answer' = "refused"
    /\ UNCHANGED <<token, typed, env, agent, code, tries, used, lost>>

\* try_pair returns the token; it is on disk before Agent.run goes on.
KeepInMemory == UNCHANGED token           \* mutant: the token is not stored
StoreToken == token' = code

TokenArrives ==
    /\ agent = "post" /\ answer = "token"
    /\ StoreToken
    /\ agent' = "running" /\ tries' = 0
    /\ code' = NoCode /\ answer' = "none"
    /\ UNCHANGED <<typed, env, used, lost>>

Refused ==
    /\ agent = "post" /\ answer = "refused"
    /\ agent' = "sleep"
    /\ code' = NoCode /\ answer' = "none"
    /\ UNCHANGED <<token, typed, env, tries, used, lost>>

\* What the cloud has made of the request nobody waits for any more: it may
\* even reach it now.
Forsake ==
    /\ \/ /\ code \in Valid \ used
          /\ used' = used \cup {code} /\ lost' = lost \cup {code}
       \/ /\ used' = used
          /\ lost' = IF answer = "token" THEN lost \cup {code} ELSE lost
    /\ code' = NoCode /\ answer' = "none"

\* An HTTPError (no connection, 15 s) is a failed try; a body that is no JSON
\* is an exception nobody catches.
PostFails ==
    /\ agent = "post"
    /\ Forsake
    /\ agent' \in {"sleep", "ended"}
    /\ UNCHANGED <<token, typed, env, tries>>

\* After MaxTries tries Agent.run gives up and the process ends.
NextTry ==
    /\ agent = "sleep"
    /\ tries' = tries + 1
    /\ agent' = IF tries' = MaxTries THEN "ended" ELSE "check"
    /\ UNCHANGED <<token, typed, env, code, answer, used, lost>>

\* Spool.set has committed what the restarted process finds.
KvKept == UNCHANGED <<token, typed>>

StartAgain ==
    /\ agent' = "check" /\ tries' = 0
    /\ env' \in EnvCodes
    /\ KvKept

\* docker starts the process that ended.
Restart ==
    /\ agent = "ended"
    /\ StartAgain
    /\ UNCHANGED <<code, answer, used, lost>>

PairingCrash ==
    /\ StartAgain
    /\ IF agent = "post" THEN Forsake ELSE UNCHANGED <<code, answer, used, lost>>

PairingStep ==
    \/ \E c \in Code : EnterCode(c)
    \/ EnsurePaired
    \/ CloudRedeems \/ CloudRefuses
    \/ TokenArrives \/ Refused \/ PostFails
    \/ NextTry \/ Restart

\* The agent goes on by itself, posts end after 15 s, docker restarts it, and
\* of unboundedly many posts of a code one reaches the cloud in time: that is
\* assumed of the surroundings.
PairingFairness ==
    /\ WF_pairVars(EnsurePaired) /\ WF_pairVars(NextTry) /\ WF_pairVars(Restart)
    /\ WF_pairVars(TokenArrives \/ Refused \/ PostFails)
    /\ SF_pairVars(CloudRedeems)

-----------------------------------------------------------------------------
(* Properties.                                                             *)

\* A gateway that is paired stays it: neither a crash, nor a restart with a code
\* in the environment, nor a code entered on the page takes its token away.
PairedForGood == [][token # NoCode => token' = token]_pairVars

\* The cloud redeems a code once.  What it gave for it is in the spool, on its
\* way, or was lost with an answer: a token is on disk before it is used.
NoCodeWasted ==
    \A c \in used : \/ c = token \/ c \in lost
                    \/ agent = "post" /\ code = c /\ answer = "token"

\* A valid code in the environment pairs the gateway, whatever is entered on
\* the page and however often the tries run out, unless the answer is lost or
\* the operator takes it away.
EnvCodePairs ==
    \A c \in Valid :
        env = c /\ agent = "check" ~> token # NoCode \/ c \in lost \/ env # c
==============================================================================
