------------------------------- MODULE MCWifi -------------------------------
(* Two networks: their keys saved, out of date, or under another name.      *)
EXTENDS WifiSelect

Profile(hex, plain) == [n \in Spellings |-> IF n = "hex" THEN hex ELSE plain]
Home(profile) == [s \in Ssids |-> IF s = "home" THEN profile ELSE Profile(None, None)]
Both(profile, other) == [s \in Ssids |-> IF s = "home" THEN profile ELSE other]

Configs(keys) == [ssid : Ssids, key : keys]

Bounds(found, configured, heard, fields, saved, errors, dead, changed) ==
  [profiles |-> found, configs |-> configured, airs |-> heard, typed |-> fields,
   saves |-> saved, faults |-> errors, deaths |-> dead, changes |-> changed]

MCScopes ==
  { Bounds({Home(Profile(None, "bad"))}, {[ssid |-> "phone", key |-> Right]}, {{"phone"}},
           {<<"home", Right>>, <<"home", Short>>}, 2, 1, 2, 0),
    Bounds({Home(Profile(None, "bad"))}, {[ssid |-> "phone", key |-> Right]}, {{}},
           {<<"home", Right>>, <<"phone", "bad">>}, 2, 1, 2, 0),
    Bounds({Both(Profile(None, Right), Profile("bad", Right)), Both(Profile(None, Right), Profile(Right, None))},
           Configs({Right, None}), SUBSET Ssids, {}, 0, 1, 1, 2),
    Bounds({Home(Profile("bad", None))}, Configs({"bad"}), {{"home"}}, {<<"home", Right>>}, 1, 1, 1, 1) }
=============================================================================
