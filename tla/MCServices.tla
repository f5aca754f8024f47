----------------------------- MODULE MCServices -----------------------------
(***************************************************************************)
(* An instance of Services for TLC.  `part` says which of them runs; the   *)
(* others stay in their initial states.  In "bots" no person but a bot's   *)
(* namesake is about, in "people" no bots, so that two people play, lose   *)
(* their connections and return.                                           *)
(***************************************************************************)
EXTENDS Services

CONSTANTS b1, b2, p1
MCRuleSets == {{}, {b1, b2}}

VARIABLES part
allVars == <<part, servicesVars>>

\* People: two of them, one a bot's namesake, and no bots, guided tables or restarts.
PeopleNext == \/ \E n \in Accounts : Login(n) \/ Return(n) \/ Drop(n) \/ Acts(n)
              \/ \E t \in Tables : Finish(t)
BotsNext == Next /\ \A n \in People : users'[n] = "none"

MCInit == /\ part \in {"bots", "people", "voice", "screen"}
          /\ ServicesInit /\ (part = "bots" \/ rule = {})
MCNext ==
    /\ UNCHANGED part
    /\ \/ part = "bots" /\ BotsNext /\ UNCHANGED <<voiceVars, screenVars>>
       \/ part = "people" /\ PeopleNext /\ UNCHANGED <<voiceVars, screenVars>>
       \/ part = "voice" /\ VoiceStep
       \/ part = "screen" /\ ScreenStep
MCSpec == /\ MCInit /\ [][MCNext]_allVars
          /\ \A b \in Bots : WF_vars(part = "bots" /\ BotTick(b))
=============================================================================
