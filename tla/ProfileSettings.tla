-------------------------- MODULE ProfileSettings --------------------------
(***************************************************************************)
(* From a profile's YAML to what the engine is given                       *)
(* (crates/paws_profile/src/lib.rs, runtime_config.rs).                    *)
(*                                                                         *)
(* The YAML comes from a subscription or an editor.  What the user chooses *)
(* on a settings page is an overlay: a patch per section (dns, tun, paws)  *)
(* that holds every field of its section, absent ones as null.  raw_yaml   *)
(* merges the two; render_runtime_yaml checks the result, replaces what    *)
(* the app manages and puts the user's rules before the subscription's.    *)
(*                                                                         *)
(* A document is a function from fields to small values, 0 for "absent".   *)
(***************************************************************************)
EXTENDS Naturals, Sequences, FiniteSets

CONSTANTS
  Docs,      \* the YAML documents a subscription or an editor may supply
  Off,       \* "not overridden", "not chosen"
  Calls,     \* which calls are made
  MaxCalls   \* bound: calls in a behaviour

Value == 0..2
Dns == {"nameserver", "fallback"}
Tun == {"stack"}
Paws == {"engine", "port", "allowLan", "secret"}
Fields == Dns \cup Tun \cup Paws
Alias == [engine |-> "vpnEngine", port |-> "mixedPort"]   \* read, never written
AliasFields == {"vpnEngine", "mixedPort"}

\* Shapes of the rules of a YAML: the single MATCH,Proxy of an old generated
\* subscription, the defaults generated now, or the provider's own.
Shapes == {"legacy", "default", "own"}
Default == <<"GEOSITE", "GEOIP", "MATCH">>
RulesOf(shape) == CASE shape = "legacy" -> <<"MATCH">>
                    [] shape = "default" -> Default
                    [] shape = "own" -> <<"OWN", "MATCH">>

Documents == [fields : [Fields \cup AliasFields -> Value], shape : Shapes]

VARIABLES
  base,     \* the file profiles/<id>.yaml
  backup,   \* the file backups/<id>.yaml
  over,     \* user_overrides: per field a value, or Off; Off by section
  active,   \* this profile is active: a change is rendered and may be refused
  rules,    \* enabled_rule_lines
  geodata,  \* which geodata files are there
  chosen,   \* what the user last chose for each field on a page, or Off
  typed,    \* the document the user last saved in the editor, or Off
  calls     \* calls made so far

vars == <<base, backup, over, active, rules, geodata, chosen, typed, calls>>

ConstantsOK ==
  /\ Docs \subseteq Documents
  /\ Calls \subseteq {"refresh", "edit", "restore", "dns", "vpn", "network"}
  /\ MaxCalls \in Nat

-----------------------------------------------------------------------------
(* Reading *)

\* raw_yaml: patched fields win, a null removes the field
RawYaml(b, o) ==
  [f \in Fields \cup AliasFields |->
     IF f \in Fields /\ o[f] # Off THEN o[f] ELSE b.fields[f]]

\* aliased_field: two spellings of one setting must not disagree
AliasedField(d) ==
  \A f \in DOMAIN Alias : d[f] # 0 /\ d[Alias[f]] # 0 => d[f] = d[Alias[f]]

\* controller_access_from_mapping: LAN access needs a secret
ControllerAccess(d) == d["allowLan"] = 2 => d["secret"] # 0

\* validate_profile_app_config; vpn_options_from_yaml, network_ports_from_mapping
ValidAppConfig(d) == AliasedField(d) /\ ControllerAccess(d)

Renders == ValidAppConfig(RawYaml(base, over))

\* upgrade_legacy_generated_subscription_rules
UpgradeLegacyRules(shape) == IF shape = "legacy" THEN Default ELSE RulesOf(shape)

\* prune_unavailable_default_subscription_rules: only the exact default list
PruneUnavailable(rs) ==
  IF rs # Default THEN rs
  ELSE SelectSeq(rs, LAMBDA r : r \in {"GEOSITE", "GEOIP"} => r \in geodata)

\* merge_rules and dedup_rules: the user's rules first, and one MATCH, the first
MergeRules(user, rs) ==
  LET all == user \o rs
      first == CHOOSE i \in 0..Len(all) :
                 IF \E j \in DOMAIN all : all[j] = "MATCH"
                 THEN i > 0 /\ all[i] = "MATCH" /\ \A j \in 1..(i - 1) : all[j] # "MATCH"
                 ELSE i = 0
  IN IF user = <<>> THEN rs
     ELSE SubSeq(all, 1, first)
          \o SelectSeq(SubSeq(all, first + 1, Len(all)), LAMBDA r : r # "MATCH")

\* render_runtime_yaml: the rules of the runtime configuration
RuntimeRules == MergeRules(rules, PruneUnavailable(UpgradeLegacyRules(base.shape)))

-----------------------------------------------------------------------------
(* Changing *)

Init ==
  /\ base \in Docs /\ ValidAppConfig(base.fields)
  /\ backup = base
  /\ over = [f \in Fields |-> Off]
  /\ active \in BOOLEAN
  /\ rules \in {<<>>, <<"USER">>, <<"USER", "MATCH">>}
  /\ geodata \in SUBSET {"GEOSITE", "GEOIP"}
  /\ chosen = [f \in Fields |-> Off]
  /\ typed = Off /\ calls = 0

\* The call's new YAML and overlay are stored.  If the profile is active they
\* are rendered, and a refusal restores the checkpoint.
Commit(b, k, o, c, t) ==
  /\ calls < MaxCalls /\ calls' = calls + 1
  /\ IF active /\ ~ValidAppConfig(RawYaml(b, o))
     THEN UNCHANGED <<base, backup, over, chosen, typed>>
     ELSE base' = b /\ backup' = k /\ over' = o /\ chosen' = c /\ typed' = t
  /\ UNCHANGED <<active, rules, geodata>>

\* replace_profile_content: normalize_profile_content checks the YAML alone
Refresh(d) ==
  /\ "refresh" \in Calls /\ ValidAppConfig(d.fields)
  /\ Commit(d, d, over, chosen, Off)

\* The editor shows raw_yaml, the user changes some of it, and
\* update_profile_content stores it as the YAML.
Edit(d) ==
  /\ "edit" \in Calls /\ ValidAppConfig(d.fields)
  /\ Commit(d, backup, over, [f \in Fields |-> Off], d)

\* restore_profile_backup
Restore ==
  /\ "restore" \in Calls
  /\ Commit(backup, backup, over, chosen, Off)

\* Mutant of SaveSettingsOverlay: the other fields of the section as in the YAML.
SaveOverlayOfYaml(sections, new) ==
  [f \in Fields |->
     IF f \in DOMAIN new THEN new[f]
     ELSE IF f \in sections THEN base.fields[f] ELSE over[f]]

\* save_settings_overlay: every field of the section, as it is in effect now
SaveSettingsOverlay(sections, new) ==
  [f \in Fields |->
     IF f \in DOMAIN new THEN new[f]
     ELSE IF f \in sections THEN RawYaml(base, over)[f] ELSE over[f]]

\* The user saves a settings page.
SetPage(call, sections, new) ==
  /\ call \in Calls
  /\ Commit(base, backup, SaveSettingsOverlay(sections, new),
            [f \in Fields |-> IF f \in DOMAIN new THEN new[f] ELSE chosen[f]], Off)

\* normalize_dns_servers: an empty list becomes the default
NormalizeDnsServers(servers) == IF servers = 0 THEN 1 ELSE servers

\* set_profile_dns_config
SetDnsConfig(servers, fallback) ==
  SetPage("dns", Dns, [nameserver |-> NormalizeDnsServers(servers),
                       fallback |-> fallback])

\* set_profile_vpn_config_with_apps_and_engine, both of its commits
SetVpnConfig(engine, stack) ==
  SetPage("vpn", Paws \cup Tun, [engine |-> engine, stack |-> stack])

\* set_profile_network_config: LAN access makes a secret if there is none
SetNetworkConfig(port, allowLan) ==
  LET secret == RawYaml(base, over)["secret"]
  IN SetPage("network", Paws,
             [port |-> port, allowLan |-> allowLan,
              secret |-> IF allowLan = 2 /\ secret = 0 THEN 1 ELSE secret])

\* set_active, by whatever activates the profile: refused if it does not render
Activate ==
  /\ ~active /\ Renders
  /\ active' = TRUE
  /\ UNCHANGED <<base, backup, over, rules, geodata, chosen, typed, calls>>

\* Geodata files are downloaded, or removed by the user.
GeodataChanges(g) ==
  /\ geodata # g /\ geodata' = g
  /\ UNCHANGED <<base, backup, over, active, rules, chosen, typed, calls>>

Next ==
  \/ \E d \in Docs : Refresh(d) \/ Edit(d)
  \/ Restore
  \/ \E s \in Value, f \in Value : SetDnsConfig(s, f)
  \/ \E e \in Value \ {0}, s \in Value \ {0} : SetVpnConfig(e, s)
  \/ \E p \in Value \ {0}, a \in Value \ {0} : SetNetworkConfig(p, a)
  \/ Activate
  \/ \E g \in SUBSET {"GEOSITE", "GEOIP"} : GeodataChanges(g)

Spec == Init /\ [][Next]_vars

-----------------------------------------------------------------------------
(* Properties *)

\* What the user chose on a page stays in effect through refreshes, restores
\* and the saving of other pages, which share sections with it.
ChoicesStay ==
  \A f \in Fields : chosen[f] # Off => RawYaml(base, over)[f] = chosen[f]

\* A configuration that was accepted can be rendered: no page, refresh or
\* restore leaves an active or inactive profile that refuses to start.
AlwaysRenders == Renders

\* The runtime configuration of a generated subscription names geodata only if
\* the file is there.
NoRuleWithoutData ==
  base.shape # "own" =>
    \A i \in DOMAIN RuntimeRules :
      RuntimeRules[i] \in {"GEOSITE", "GEOIP"} => RuntimeRules[i] \in geodata

\* Generated subscriptions route by region once the geodata is there, also those
\* generated by older versions.
LegacyRoutesByRegion ==
  base.shape # "own" /\ geodata = {"GEOSITE", "GEOIP"} /\ rules = <<>>
    => RuntimeRules = Default

\* The user's rules decide before the subscription's.
UserRulesFirst ==
  \A i, j \in DOMAIN RuntimeRules :
    RuntimeRules[i] = "USER" /\ RuntimeRules[j] \in {"OWN", "GEOSITE", "GEOIP"} => i < j

\* What the user types into the editor and saves is in effect.
\* It does not hold: see the observations in the README.
EditTakesEffect ==
  typed # Off => \A f \in Fields : RawYaml(base, over)[f] = typed.fields[f]
=============================================================================
