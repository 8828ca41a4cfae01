---------------------------- MODULE Configuration -----------------------------
(***************************************************************************)
(* core/config.py: which configurations SwarmConfig.from_dict accepts.     *)
(*                                                                         *)
(* A configuration holds its providers by name, the overseer's profile and *)
(* the workers' profiles by agent id.  Of a provider the model keeps the   *)
(* command, the argument list and the declared access; of a profile what   *)
(* the checks and the selection read.  An argument stands for a class of   *)
(* strings, those the checks tell apart: "-c" for --config too,            *)
(* "sandbox_mode" for whatever else mentions the sandbox, "plain" for what *)
(* means nothing to the checks, also as the value of a sandbox flag.       *)
(***************************************************************************)
EXTENDS Integers, FiniteSets, SequencesExt

Accesses == {"read_only", "workspace_write"}
SandboxFlags == {"--sandbox", "-s"}
LongAssigned == {"--sandbox=read-only", "--sandbox=workspace-write", "--sandbox=plain"}
SandboxAssigned ==
  LongAssigned \cup {"-s=read-only", "-s=workspace-write", "-s=plain"}
Arguments == {"plain", "read-only", "workspace-write", "-c", "sandbox_mode",
              "--config=sandbox", "--add-dir", "--bypass"}
               \cup SandboxFlags \cup SandboxAssigned

(* The substring "sandbox" is in the long spellings only. *)
MentionsSandbox == {"sandbox_mode", "--sandbox", "--config=sandbox"} \cup LongAssigned

(* A configuration as parsed: every field has a value of its type. *)
Provider ==
  [command : {"codex", "other"}, args : Seq(Arguments),
   access : Accesses \cup {"unrestricted"}]
Profile ==
  [provider : STRING, role : {"overseer", "worker", "reviewer"},
   strategy : {"predict", "agentic"}, access : Accesses,
   quality : {"economy", "standard", "high"}, cost : Int, retries : Int,
   capabilities : SUBSET STRING]

IsConfig(config) ==
  /\ \A name \in DOMAIN config.providers : config.providers[name] \in Provider
  /\ config.overseer \in Profile
  /\ DOMAIN config.workers \subseteq Nat
  /\ \A w \in DOMAIN config.workers : config.workers[w] \in Profile

ValueOf(argument) ==
  CASE argument \in {"--sandbox=read-only", "-s=read-only"}             -> "read-only"
    [] argument \in {"--sandbox=workspace-write", "-s=workspace-write"} -> "workspace-write"
    [] OTHER                                                           -> "plain"

ExpectedSandbox(access) ==
  IF access = "read_only" THEN "read-only" ELSE "workspace-write"

(* The scan for sandbox flags; a flag without "=" takes what follows it.   *)
ReadFlag(s, argument) ==
  IF s.takes THEN [takes |-> FALSE, found |-> Append(s.found, argument)]
  ELSE [takes |-> argument \in SandboxFlags,
        found |-> IF argument \in SandboxAssigned
                  THEN Append(s.found, ValueOf(argument)) ELSE s.found]

FlagsRead(args) ==
  LET read[n \in 0 .. Len(args)] ==
        IF n = 0 THEN [takes |-> FALSE, found |-> <<>>]
        ELSE ReadFlag(read[n - 1], args[n])
  IN read

Sandboxes(args) == FlagsRead(args)[Len(args)]

OverridesSandbox(args) ==
  \E i \in DOMAIN args :
    \/ args[i] = "--config=sandbox"
    \/ args[i] = "-c" /\ i < Len(args) /\ args[i + 1] \in MentionsSandbox

(* ProviderConfig.from_dict: a Codex adapter that claims a boundary must   *)
(* pass exactly that sandbox and nothing that changes it.                  *)
ProviderAcceptedOnce(provider) ==
  provider.command = "codex" /\ provider.access # "unrestricted" =>
    /\ {"--bypass", "--add-dir"} \cap ToSet(provider.args) = {}
    /\ LET scan == Sandboxes(provider.args)
       IN ~scan.takes /\ scan.found = <<ExpectedSandbox(provider.access)>>

ProviderAccepted(provider) ==
  provider.command = "codex" /\ provider.access # "unrestricted" =>
    /\ {"--bypass", "--add-dir"} \cap ToSet(provider.args) = {}
    /\ ~OverridesSandbox(provider.args)
    /\ LET scan == Sandboxes(provider.args)
       IN ~scan.takes /\ scan.found = <<ExpectedSandbox(provider.access)>>

(* AgentProfile.from_dict. *)
ProfileAccepted(profile) == profile.cost >= 0 /\ profile.retries >= 0

Profiles(config) ==
  {config.overseer} \cup {config.workers[w] : w \in DOMAIN config.workers}

(* SwarmConfig.from_dict: roles and strategies. *)
RolesAccepted(config) ==
  /\ config.overseer.role = "overseer" /\ config.overseer.strategy = "predict"
  /\ \A w \in DOMAIN config.workers :
       LET p == config.workers[w]
       IN \/ p.role = "worker" /\ p.strategy = "agentic"
          \/ p.role = "reviewer" /\ p.strategy = "predict"

(* What changes the workspace says so, and never retries its replies. *)
WritersAccepted(config) ==
  \A w \in DOMAIN config.workers :
    LET p == config.workers[w]
    IN /\ p.role = "worker"
            /\ p.capabilities \cap {"documentation", "implementation"} # {}
          => p.access = "workspace_write"
       /\ p.access = "workspace_write" => p.retries = 0

ConfigAccepted(config) ==
  /\ DOMAIN config.providers # {} /\ DOMAIN config.workers # {}
  /\ \A name \in DOMAIN config.providers : ProviderAccepted(config.providers[name])
  /\ \A p \in Profiles(config) :
       ProfileAccepted(p) /\ p.provider \in DOMAIN config.providers
  /\ RolesAccepted(config)
  /\ \A p \in Profiles(config) : config.providers[p.provider].access = p.access
  /\ WritersAccepted(config)

-------------------------------------------------------------------------------
(* What these arguments ask of the command, position by position, by the   *)
(* common rules of option parsers: an option takes the argument after it,  *)
(* and the command does not start where that is missing or an option too.  *)
Options == Arguments \ {"plain", "read-only", "workspace-write", "sandbox_mode"}

NotStarted(args) ==
  \E i \in DOMAIN args : /\ args[i] \in SandboxFlags \cup {"-c"}
                         /\ i = Len(args) \/ args[i + 1] \in Options

Loosened(args) ==
  \/ {"--config=sandbox", "--add-dir", "--bypass"} \cap ToSet(args) # {}
  \/ \E i \in DOMAIN args : i < Len(args) /\ args[i] = "-c" /\ args[i + 1] = "sandbox_mode"

SandboxModes(args) ==
  {args[i + 1] : i \in {j \in DOMAIN args : j < Len(args) /\ args[j] \in SandboxFlags}}
    \cup {ValueOf(args[i]) : i \in {j \in DOMAIN args : args[j] \in SandboxAssigned}}

RunsWithin(args, mode) ==
  NotStarted(args) \/ (~Loosened(args) /\ SandboxModes(args) = {mode})
===============================================================================
