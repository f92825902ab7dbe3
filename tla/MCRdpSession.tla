---------------------------- MODULE MCRdpSession ----------------------------
(* A connection with optional fields of both kinds.                        *)
EXTENDS RdpSession

Office == [id |-> "id", name |-> "pc", protocol |-> "Rdp", host |-> "host", port |-> 3389,
           username |-> "user", password |-> "secret", private_key_path |-> Null,
           private_key_passphrase |-> Null, folder_id |-> "folder", tags |-> <<"a", "b">>,
           notes |-> Null, jump_host_id |-> Null, timeout_seconds |-> 30,
           domain |-> "domain"]

MCCards == {Office}
MCTexts == {"pc", "host", "user", "secret", "a", "b", "domain"}
MCUuids == {"id", "folder"}
MCOtherWires == {"update_connection", "SshConnection_connect"}
=============================================================================
