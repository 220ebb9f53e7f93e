------------------------------ MODULE MCFramePath ------------------------------
(* A large shape that only the first configuration finds, a small and        *)
(* compact one both find, and a line without an area; captures of several    *)
(* types and sizes, with and without a disk to log to, and a log rate above  *)
(* the frame rate.                                                           *)
EXTENDS FramePath

Big   == [id |-> 1, hue |-> 1, area |-> 900, box |-> 1600, solidity |-> 60,
          aspect |-> 100]
Small == [id |-> 2, hue |-> 2, area |-> 700, box |-> 768, solidity |-> 95,
          aspect |-> 2100]
Line  == [id |-> 3, hue |-> 2, area |-> 0, box |-> 20, solidity |-> Undefined,
          aspect |-> 2000]
Letter == [id |-> 4, hue |-> 0, area |-> 50, box |-> 90, solidity |-> 50,
           aspect |-> 80]

Wide == [hue |-> <<1, 2>>, area |-> <<0, 100>>, solidity |-> <<0, 100>>,
         aspect |-> <<0, 2000>>]
Tight == [hue |-> <<2, 2>>, area |-> <<1, 100>>, solidity |-> <<0, 99>>,
          aspect |-> <<0, 2000>>]

MCErrorText == {Letter}

Disk == [root |-> "dir", unit |-> "absent", mounted |-> TRUE, writable |-> TRUE]

Plain == <<"original", "none">>
Mask  == <<"mask", "none">>
Off   == <<"none", "none">>

Setup(type, size, pipeline, interval) ==
  [type |-> type, size |-> size, pipeline |-> pipeline, image |-> NoFrame,
   fps |-> 30, rate |-> IF interval = 0 THEN 0 ELSE 30 \div interval,
   four_up |-> TRUE, mount |-> TRUE, disk |-> Disk,
   scenes |-> {{Big, Small}, {Line}}, configs |-> {Wide, Tight},
   streams |-> {Plain, Mask}, frames |-> 3, logs |-> 1]

MCSetups ==
  {[Setup("file", <<320, 240>>, "upright", 1) EXCEPT !.image = {Big, Small}],
   [Setup("file", <<720, 1280>>, "list", 0) EXCEPT !.streams = Views \X Outlines],
   [Setup("usb", <<320, 240>>, "minarea", 2) EXCEPT
      !.four_up = FALSE, !.configs = {Wide}, !.scenes = {{Big}, {Small}},
      !.frames = 4, !.logs = 2],
   [Setup("test", <<320, 180>>, "list", 1) EXCEPT !.configs = {Tight}],
   [Setup("jetson", <<320, 240>>, "latency", 1) EXCEPT
      !.disk.mounted = FALSE, !.configs = {Wide}],
   [Setup("test", <<320, 240>>, "upright", 1) EXCEPT
      !.rate = 60, !.configs = {Wide}, !.streams = {}]}
==============================================================================
