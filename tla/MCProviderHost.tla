---------------------------- MODULE MCProviderHost ----------------------------
EXTENDS DmProviderHost

\* The third finds no slot, the fourth is not in the data model.
MCRegisterOrder == <<"EndPoint.1", "EndPoint.2", "EndPoint.3", "Unknown">>
MCObjects == {"EndPoint.1", "EndPoint.2", "EndPoint.3"}

\* Some of those of Device.WiFi.EndPoint (src/dataProvider/data).  There SSID
\* may not be written, and no transaction ever has both its values; here it may.
MCProperties == <<"SSID", "SecurityType", "Status", "AdapterNumberOfEntries", "Alias">>

MCGets == {"*", "Bogus"}

\* Nothing decoded; a transaction that is whole; one that is not, with a
\* property that cannot be written, one nobody serves and one nobody knows;
\* a piece without a value beside one with; single sets.
MCSets ==
    {<<>>,
     <<<<"SSID", "x">>, <<"Status", "y">>>>,
     <<<<"SSID", "y">>, <<"AdapterNumberOfEntries", "x">>, <<"Alias", "y">>, <<"Bogus", "x">>>>,
     <<<<"SSID">>, <<"Status", "x">>>>,
     <<<<"SecurityType", "x">>>>}
=============================================================================
