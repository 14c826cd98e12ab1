------------------------------- MODULE MCClient -------------------------------
EXTENDS DmClient

Object(name, isList, props) == [name |-> name, isList |-> isList, props |-> props]

WiFi == <<"Device", "WiFi">>
EndPoint == WiFi \o <<"EndPoint">>
EndPoint1 == EndPoint \o <<"1">>

\* The data model of the repository (src/dataProvider/data), a second file for
\* one of its objects, and a file that cannot be parsed.
MCFiles ==
    {Object(WiFi, FALSE, <<"EndPointNumberOfEntries", "EndPointIdsOfEntries">>),
     Object(WiFi, FALSE, <<>>),
     Object(EndPoint, TRUE, <<"Alias">>),
     Object(EndPoint \o <<"Adapter">>, TRUE, <<"Alias">>),
     Object(EndPoint \o <<"Interface">>, TRUE, <<"Alias">>),
     Object(WiFi \o <<"Router">>, FALSE, <<"Name">>),
     Object(<<"Device", "DeviceInfo">>, FALSE, <<"ModelName">>),
     NotJson}

Get(params) == [op |-> "get", recursive |-> FALSE, params |-> params]
GetAll(path) == [op |-> "get", recursive |-> TRUE, params |-> <<Query(path)>>]
Set(params) == [op |-> "set", recursive |-> FALSE, params |-> params]

MCCommands ==
    {Get(<<Query(<<"Device", "DeviceInfo", "ModelName">>), Query(Append(EndPoint, ""))>>),
     Get(<<Query(Append(EndPoint1, ""))>>),
     Get(<<Query(WiFi \o <<"None", "">>), Query(WiFi \o <<"None", "Alias">>)>>),
     Get(<<Query(EndPoint1 \o <<"Adapter", "">>)>>),
     GetAll(Append(WiFi, "")),
     GetAll(Append(EndPoint, "")),
     GetAll(Append(EndPoint1, "Alias")),
     GetAll(Append(EndPoint, "Alias")),
     GetAll(<<"">> \o Append(WiFi, "")),
     GetAll(WiFi \o <<"None", "Alias">>),
     GetAll(WiFi \o <<"None", "">>),
     Set(<<SetQuery(Append(EndPoint1, "Alias"), <<"x">>, FALSE),
           SetQuery(EndPoint1, <<"{SSID=x,Status=y}">>, TRUE),
           SetQuery(Append(WiFi, "Alias"), <<"x">>, FALSE)>>),
     Set(<<SetQuery(Append(EndPoint1, "Alias"), <<"1", "5">>, FALSE),
           Query(Append(WiFi, "Alias"))>>)}

MCIds == <<"1", "2">>

\* All names of up to five of these tokens, the empty one between two dots, or
\* in front of the first, among them.
Tokens == {"", "Device", "WiFi", "EndPoint", "Adapter", "1"}
MCProbes == UNION {[1 .. n -> Tokens] : n \in 1 .. 5}
===============================================================================
