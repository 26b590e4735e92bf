---------------------------- MODULE MCConfigFile ----------------------------
(* ConfigFile with the file the repository ships, and one from before the  *)
(* radio section and the TCI backend, whose unit is quoted.  A file that   *)
(* has been lost is the third, with no section at all.                     *)
EXTENDS ConfigFile, TLC

MCWords == STRING

MCShipped ==
  {<<Header("serial"), KeyLine("port", "ttyUSB0"),
     Header("amp"), Comment("unit"), KeyLine("temperature_unit", "fahrenheit"),
     Comment("radio"), Header("radio"), KeyLine("kind", "flex"),
     Comment("flex"), Header("flex"), KeyLine("enabled", "true"), KeyLine("host", "shack"),
     Comment("tci"), Header("tci"), KeyLine("host", "127.0.0.1"),
     Header("logging"), KeyLine("level", "INFO")>>,
   <<Header("amp"), KeyLine("temperature_unit", "\"F\""),
     Header("flex"), Comment("enabled"), KeyLine("enabled", "true"),
     Comment("logging"), Header("logging"), KeyLine("level", "INFO"), Comment("end")>>}

MCRadioRequests == {Kind :> "tci", FlexHost :> "shack"}
MCToolRequests == {Kind :> "sdr" @@ Enabled :> "true" @@ TciHost :> "shack" @@ Port :> "ttyACM0"}
=============================================================================
