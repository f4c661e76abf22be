---------------------------- MODULE MCDockerLink ----------------------------
(* Small instances of DockerLink for TLC. *)
EXTENDS DockerLink, TLC

On(ip, port) == [IP |-> ip, PrivatePort |-> 80, PublicPort |-> port, Type |-> "tcp"]
Http(port) == On("0.0.0.0", port)
Unexported == [IP |-> "", PrivatePort |-> 0, PublicPort |-> 0, Type |-> "tcp"]

\* Two containers of an image, so that they are backends of one service.
MCMangle == ("shop/web" :> "shop-web")
MCContainers == {"c1", "c2"}
MCImage == ("c1" :> "shop/web") @@ ("c2" :> "shop/web")

\* c1 publishes a port Docker chooses anew at each start, and the second time on two
\* addresses; c2 may get the port c1 had.
MCMappings == ("c1" :> {{Http(8001)}, {Http(8002), On("10.0.0.2", 8002), Unexported}})
              @@ ("c2" :> {{Http(8001)}})

\* Other clients use another service, which may take the address.
MCVsIDs  == {<<"shop-web", 80, "tcp">>, <<"blog", 80, "tcp">>}
MCRsIDs  == {<<"c1", 8001, "tcp">>, <<"c1", 8002, "tcp">>, <<"c2", 8001, "tcp">>}
MCHostIP == "10.0.0.1"
MCKeys   == {<<MCHostIP, 80, "tcp">>, <<"10.0.0.9", 80, "tcp">>}
MCDests  == {MCHostIP, "10.0.0.2"} \X {8001, 8002}
=============================================================================
