-------------------------------- MODULE MCWeb --------------------------------
(***************************************************************************)
(* WebSettings.tla with seven bodies for its clients to post.  Settings    *)
(* and scan pages share nothing but the parser and a restart, so each is   *)
(* explored at full width with a single request of the other kind.         *)
(***************************************************************************)
EXTENDS WebSettings

VARIABLE busy   \* what the clients of this run are after

MCFactoryAp ==
  [ssid |-> <<"E", "S">>, password |-> <<>>, authmode |-> "AUTH_OPEN", channel |-> 1]

MCPieces ==
  {AuthName[m] : m \in DOMAIN AuthName} \cup {Decimal[n + 1] : n \in Channels}
    \cup {"E", "S", "e", "g", "h", "k", "m", "n", "o", "p", "q", "t", "u", "y"}

JoinShort == <<Pair("Station", <<>>), Pair("ssid", <<"h">>), Pair("token", <<"t", "u">>)>>
JoinLong ==
  <<Pair("Station", <<>>), Pair("ssid", <<"h", "o">>), Pair("password", <<"p", "q">>)>>
Both ==
  <<Pair("Softap", <<>>), Pair("authmode", <<"WPA2PSK">>), Pair("channel", <<"6">>),
    Pair("ssid", <<"m">>), Pair("password", <<"k", "e", "y">>),
    Pair("Station", <<>>), Pair("ssid", <<"h">>)>>
StationFirst ==
  <<Pair("Station", <<>>), Pair("ssid", <<"g">>),
    Pair("Softap", <<>>), Pair("ssid", <<"m", "n">>), Pair("authmode", <<"WPAPSK">>)>>
WepAp ==
  <<Pair("Softap", <<>>), Pair("ssid", <<"m">>), Pair("authmode", <<"WEP">>),
    Pair("channel", <<"6">>)>>
NoSection == <<Pair("ssid", <<"h">>), Pair("password", <<"p">>)>>
NoSsid == <<Pair("Softap", <<>>), Pair("channel", <<"6">>)>>

MCBodies == {JoinShort, JoinLong, Both, StationFirst, WepAp, NoSection, NoSsid}

WebInit == SettingsInit /\ busy \in {"settings", "pages"}

WebNext ==
  /\ SettingsNext
  /\ busy = "settings" => scanVars' = scanVars
  /\ busy = "pages" => posted'.body \in {<<>>, JoinShort}
  /\ UNCHANGED busy

WebSpec == WebInit /\ [][WebNext]_<<vars, settingsVars, busy>>
=============================================================================
