----------------------------- MODULE MC_RootCmd -----------------------------
(* Instantiates RootCmd for TLC with four of the root command's flags, one *)
(* of each kind and the two setupLogger reads.  "5" is a duration without *)
(* a unit, which ParseDuration rejects.                                   *)
EXTENDS RootCmd

MCFlags == {"debug", "json", "storage-s3-bucket", "storage-s3-signedurl-expiry"}

MCKind == [f \in MCFlags |->
            IF f \in {"debug", "json"} THEN "bool"
            ELSE IF f = "storage-s3-bucket" THEN "string" ELSE "duration"]

MCDefault == [f \in MCFlags |->
               IF f \in {"debug", "json"} THEN "false"
               ELSE IF f = "storage-s3-bucket" THEN "" ELSE "30s"]

MCCliValues == [f \in MCFlags |->
                 IF f = "debug" THEN {"true", "false"}
                 ELSE IF f = "json" THEN {"true"}
                 ELSE IF f = "storage-s3-bucket" THEN {"registry"} ELSE {"1m", "5"}]

MCEnvValues == {"", "true", "30s"}

\* ParseBool, ParseDuration; a string flag takes any text
MCParses == [k \in {"bool", "string", "duration"} |->
              IF k = "bool" THEN {"true", "false"}
              ELSE IF k = "duration" THEN {"30s", "1m"}
              ELSE {"", "true", "false", "30s", "1m", "registry"}]

MCVisitOrder == <<"debug", "json", "storage-s3-bucket", "storage-s3-signedurl-expiry">>
=============================================================================
