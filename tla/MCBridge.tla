------------------------------ MODULE MCBridge ------------------------------
(***************************************************************************)
(* Small instances of Bridge.                                              *)
(***************************************************************************)
EXTENDS Bridge, TLC

CONSTANTS r1, r2

MCSlug == "Jazz!" :> "jazz"
MCSuffixed(s, i) == s \o "-" \o ToString(i)
MCIDs == {"jazz", "jazz-2"}
MCTrim(n) == IF n = " A" THEN "A" ELSE n

Jazz == [id |-> "jazz", name |-> "Jazz!"]
MCFactory == << [name |-> "PalmaSola", stations |-> <<Jazz>>, presets |-> [k \in Slots |-> "jazz"]] >>

\* Two saved speakers, a station and nothing assigned.
Saved2 == [EmptyConfig EXCEPT
  !.speakers = <<[name |-> "A", ip |-> "ip1"], [name |-> "B", ip |-> "ip2"]>>,
  !.stations = <<Jazz>>, !.presets = EmptyPresets]
TwoSaved == {NoFile, Saved2}

HomePage == {"stations", "presets", "profiles"}
SettingsPage == {"speakers", "select"}

\* One client on either page, or two: both on the home page, both on the settings page,
\* one of the home page and one choosing the speaker.
TwoClients == {r1 :> HomePage  @@ r2 :> HomePage,
               r1 :> SettingsPage @@ r2 :> SettingsPage,
               r1 :> HomePage @@ r2 :> {"select"}}
OneClient  == {r1 :> HomePage @@ r2 :> {}, r1 :> SettingsPage @@ r2 :> {}}

FoundA == {[name |-> " A", ip |-> "ip1"], Nobody}
FoundB == {[name |-> "B", ip |-> "ip1"], Nobody}
=============================================================================
