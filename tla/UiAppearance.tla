---------------------------- MODULE UiAppearance ----------------------------
(***************************************************************************)
(* The appearance of the app: the saved preference for language and theme, *)
(* the preferences store of the UI root, the effect that sends the colour  *)
(* mode of the theme to the ability context, and the subscription that     *)
(* brings the language and colour mode of the system to the store.         *)
(*                                                                         *)
(* The UI thread runs the operations, the effect and the callbacks one at  *)
(* a time; the colour mode plugin, the watch channel of the system's       *)
(* preferences and the subscription run beside it.  Languages are a choice *)
(* of following the system or not, system languages the two catalogs.      *)
(***************************************************************************)
EXTENDS Naturals, Sequences, SequencesExt

CONSTANTS
    None,         \* Option::None
    MaxEdits,     \* bound on choices of the user
    MaxSystem,    \* bound on changes of the system's own settings
    MaxRestarts,  \* bound on restarts of the app
    ColorFails,   \* whether setColorMode may fail
    SaveFails     \* whether the preferences file may be unwritable

ConstantsOK ==
    /\ {MaxEdits, MaxSystem, MaxRestarts} \subseteq Nat
    /\ {ColorFails, SaveFails} \subseteq BOOLEAN

VARIABLES
    prefs,     \* PreferencesProjection of the store
    file,      \* ui-preferences.json
    calls,     \* set-color-mode calls that have not called back
    platform,  \* the colour mode the ability context applies
    os,        \* the system's own settings
    system,    \* system_preferences::CURRENT
    fresh,     \* whether the subscription has sent CURRENT
    chan,      \* messages of the subscription to the UI thread
    left       \* what is left of the bounds

vars == <<prefs, file, calls, platform, os, system, fresh, chan, left>>

Themes == {"System", "Light", "Dark"}
Languages == {"System", "En"}
Locales == {"ZhCn", "En"}
Modes == {"NotSet", "Light", "Dark"}

Saved == [language : Languages, theme : Themes]
System == [locale : Locales, mode : {"Light", "Dark"}]

\* ThemePreference::platform_color_mode
ModeOf(theme) == IF theme = "System" THEN "NotSet" ELSE theme

\* ThemePreference::resolve_dark
Dark(theme, mode) == \/ theme = "Dark"
                     \/ theme = "System" /\ mode = "Dark"

\* LanguagePreference::resolve
Locale(language, locale) == IF language = "System" THEN locale ELSE language

\* The channel of a subscription (reactive_signal.rs).
ChannelCapacity == 4

TypeOK ==
    /\ prefs \in [language : Languages, theme : Themes, locale : Locales,
                  dark : BOOLEAN, applied : Modes \cup {None},
                  pending : Modes \cup {None}, modeError : BOOLEAN,
                  saveError : BOOLEAN]
    /\ file \in Saved
    /\ calls \in Seq([mode : Modes, state : {"sent", "applied", "refused"}])
    /\ platform \in Modes
    /\ {os, system} \subseteq System
    /\ fresh \in BOOLEAN
    /\ chan \in Seq(System) /\ Len(chan) <= ChannelCapacity
    /\ left \in [edits : 0..MaxEdits, system : 0..MaxSystem,
                 restarts : 0..MaxRestarts]

-----------------------------------------------------------------------------
(* The root: load the saved preferences, resolve them, start the           *)
(* subscription.  The first run finds no file, which reads as the default. *)

Loaded(saved, now) ==
    [language |-> saved.language, theme |-> saved.theme,
     locale |-> Locale(saved.language, now.locale),
     dark |-> Dark(saved.theme, now.mode),
     applied |-> None, pending |-> None,
     modeError |-> FALSE, saveError |-> FALSE]

Init ==
    /\ os \in System
    /\ system = os
    /\ file = [language |-> "System", theme |-> "System"]
    /\ prefs = Loaded(file, system)
    /\ calls = <<>>
    /\ platform = "NotSet"
    /\ fresh = FALSE
    /\ chan = <<>>
    /\ left = [edits |-> MaxEdits, system |-> MaxSystem,
               restarts |-> MaxRestarts]

\* The process ends at any point and starts again: the file, written to a
\* temporary file and renamed, is all that is left.
Restart ==
    /\ left.restarts > 0
    /\ left' = [left EXCEPT !.restarts = @ - 1]
    /\ system' = os
    /\ prefs' = Loaded(file, os)
    /\ calls' = <<>>
    /\ platform' = "NotSet"
    /\ fresh' = FALSE
    /\ chan' = <<>>
    /\ UNCHANGED <<file, os>>

-----------------------------------------------------------------------------
(* Operations of the user.                                                 *)

Edit == left.edits > 0 /\ left' = [left EXCEPT !.edits = @ - 1]

\* UiPreferences::save writes every preference of the store.
Save(language, theme, failed) ==
    /\ failed => SaveFails
    /\ file' = IF failed THEN file
               ELSE [language |-> language, theme |-> theme]

SetLanguage(language) ==
    /\ Edit
    /\ \E failed \in BOOLEAN :
         /\ Save(language, prefs.theme, failed)
         /\ prefs' = [prefs EXCEPT !.language = language,
                                   !.locale = Locale(language, system.locale),
                                   !.dark = Dark(prefs.theme, system.mode),
                                   !.modeError = FALSE,
                                   !.saveError = failed]
    /\ UNCHANGED <<calls, platform, os, system, fresh, chan>>

SetTheme(theme) ==
    /\ Edit
    /\ \E failed \in BOOLEAN :
         /\ Save(prefs.language, theme, failed)
         /\ prefs' = [prefs EXCEPT !.theme = theme,
                                   !.locale = Locale(prefs.language, system.locale),
                                   !.dark = Dark(theme, system.mode),
                                   !.modeError = FALSE,
                                   !.saveError = failed]
    /\ UNCHANGED <<calls, platform, os, system, fresh, chan>>

RetryColorMode ==
    /\ Edit
    /\ prefs.modeError
    /\ prefs' = [prefs EXCEPT !.modeError = FALSE]
    /\ UNCHANGED <<file, calls, platform, os, system, fresh, chan>>

-----------------------------------------------------------------------------
(* The colour mode effect and its calls.                                   *)

\* use_effect: it runs after the store changed and returns early unless the
\* mode is neither applied, nor pending, nor refused.
ColorModeEffect ==
    LET mode == ModeOf(prefs.theme)
    IN  /\ prefs.applied # mode
        /\ prefs.pending # mode
        /\ ~prefs.modeError
        /\ prefs' = [prefs EXCEPT !.pending = mode]
        /\ calls' = Append(calls, [mode |-> mode, state |-> "sent"])
        /\ UNCHANGED <<file, platform, os, system, fresh, chan, left>>

\* ColorModePlugin.invokeAsync: the calls reach the ability context in the
\* order in which they were made.
PluginApplies ==
    \E i \in DOMAIN calls :
       /\ calls[i].state = "sent"
       /\ \A j \in 1..(i - 1) : calls[j].state # "sent"
       /\ \/ /\ calls' = [calls EXCEPT ![i].state = "applied"]
             /\ platform' = calls[i].mode
          \/ /\ ColorFails
             /\ calls' = [calls EXCEPT ![i].state = "refused"]
             /\ UNCHANGED platform
       /\ UNCHANGED <<prefs, file, os, system, fresh, chan, left>>

\* Mutants: the callback of a superseded mode leaves it pending; a refusal is
\* dropped.
CallbackKeepsPending(mode, state) ==
    IF ModeOf(prefs.theme) # mode THEN prefs
    ELSE IF state = "applied"
    THEN [prefs EXCEPT !.applied = mode, !.pending = None,
                       !.modeError = FALSE]
    ELSE [prefs EXCEPT !.pending = None, !.modeError = TRUE]

\* What the callback makes of the store.
CallbackPrefs(mode, state) ==
    IF ModeOf(prefs.theme) # mode
    THEN [prefs EXCEPT !.pending = IF @ = mode THEN None ELSE @]
    ELSE IF state = "applied"
    THEN [prefs EXCEPT !.applied = mode, !.pending = None,
                       !.modeError = FALSE]
    ELSE [prefs EXCEPT !.pending = None, !.modeError = TRUE]

ColorModeCallback ==
    \E i \in DOMAIN calls :
       /\ calls[i].state # "sent"
       /\ prefs' = CallbackPrefs(calls[i].mode, calls[i].state)
       /\ calls' = RemoveAt(calls, i)
       /\ UNCHANGED <<file, platform, os, system, fresh, chan, left>>

-----------------------------------------------------------------------------
(* The settings of the system.                                             *)

\* The user changes the language or the colour mode of the device.
SystemChanges ==
    /\ left.system > 0
    /\ left' = [left EXCEPT !.system = @ - 1]
    /\ os' \in System \ {os}
    /\ UNCHANGED <<prefs, file, calls, platform, system, fresh, chan>>

\* The configuration the ability is given: its own colour mode, if it has
\* set one, hides the system's.
Configuration == [os EXCEPT !.mode = IF platform = "NotSet" THEN @ ELSE platform]

\* onConfigurationUpdate, and send_if_modified behind it.
ConfigurationUpdate ==
    /\ system # Configuration
    /\ system' = Configuration
    /\ fresh' = FALSE
    /\ UNCHANGED <<prefs, file, calls, platform, os, chan, left>>

\* The subscription: borrow_and_update, then send, which waits for a place.
SubscriptionSends ==
    /\ ~fresh
    /\ Len(chan) < ChannelCapacity
    /\ chan' = Append(chan, system)
    /\ fresh' = TRUE
    /\ UNCHANGED <<prefs, file, calls, platform, os, system, left>>

\* The message handler of use_system_preferences_provider.
OnSystem ==
    /\ chan # <<>>
    /\ chan' = Tail(chan)
    /\ prefs' = [prefs EXCEPT
                   !.locale = Locale(prefs.language, Head(chan).locale),
                   !.dark = Dark(prefs.theme, Head(chan).mode)]
    /\ UNCHANGED <<file, calls, platform, os, system, fresh, left>>

-----------------------------------------------------------------------------
User ==
    \/ \E language \in Languages : SetLanguage(language)
    \/ \E theme \in Themes : SetTheme(theme)
    \/ RetryColorMode
    \/ SystemChanges
    \/ Restart

Steps ==
    \/ ColorModeEffect
    \/ PluginApplies
    \/ ColorModeCallback
    \/ ConfigurationUpdate
    \/ SubscriptionSends
    \/ OnSystem

Next == User \/ Steps

Spec == Init /\ [][Next]_vars

\* The executors run what is ready: the effect after a change of the store,
\* the plugin, the callbacks, the subscription and its messages.  Nothing is
\* asked of the user.
Fair(n) ==
    \/ n = 1 /\ (ColorModeEffect \/ ColorModeCallback \/ OnSystem)
    \/ n = 2 /\ (PluginApplies \/ ConfigurationUpdate \/ SubscriptionSends)

FairSpec == Spec /\ \A n \in 1..2 : WF_vars(Fair(n))

-----------------------------------------------------------------------------
(* Properties.                                                             *)

\* A pending colour mode has a call under way that will settle it, whatever
\* the user chose in between: pending_color_mode, which keeps the effect from
\* sending the mode again, never outlives the call it stands for.
PendingHasCall ==
    prefs.pending # None => \E i \in DOMAIN calls : calls[i].mode = prefs.pending

\* What the app shows survives a restart unless the page says that saving
\* failed: the file holds both preferences, also the one an earlier failed
\* save left out.
ShownIsSaved ==
    ~prefs.saveError
      => file = [language |-> prefs.language, theme |-> prefs.theme]

\* The chosen mode is applied, or the error that offers a retry is shown.
ModeSettled == prefs.applied = ModeOf(prefs.theme) \/ prefs.modeError

\* However the calls, their callbacks and the choices interleave, the store
\* ends with the chosen mode applied or with the error that offers a retry.
ModeSettles == <>[]ModeSettled

\* The catalog and the palette end as the preferences and the configuration
\* of the ability say, though messages of older configurations are queued.
ShowsSystem ==
    <>[](/\ prefs.locale = Locale(prefs.language, os.locale)
         /\ prefs.dark = Dark(prefs.theme, system.mode))

\* A colour preference marked applied is the one the platform acknowledged:
\* with no call under way, the ability context has that mode.  (The comment
\* of bridge::set_color_mode.)
\* It does not hold: see the observations in the README.
AppliedIsAcknowledged ==
    calls = <<>> /\ prefs.applied # None => platform = prefs.applied
=============================================================================
