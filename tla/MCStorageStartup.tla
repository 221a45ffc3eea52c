-------------------------- MODULE MCStorageStartup --------------------------
EXTENDS StorageStartup

MCRegistered == <<"app">>

\* The core's two scripts (storage/migrations) and one of an application.
MCFiles == [n \in {"core", "app"} |->
              IF n = "core" THEN <<"001_schema", "002_conversations">>
                            ELSE <<"001_products">>]

AppManual == {"app"}
=============================================================================
