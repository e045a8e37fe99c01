------------------------ MODULE MCGraphicsSubmission ------------------------
EXTENDS GraphicsSubmission

Packet(opcode, low, body) ==
    << -(2^30) + (Len(body) - 1) * 2^16 + opcode * 2^8 + low >> \o body
Set(opcode, start, values) == Packet(opcode, 0, <<start>> \o values)

\* The packets of a draw, each in one place.
DrawStream ==
    << Set(SetShReg, GeometryLo, <<2, 0>>), Set(SetShReg, PixelLo, <<3, 1>>),
       Set(SetContextReg, TargetMask, <<15>>), Set(SetContextReg, Base, <<4, 0, 0, 0, 40>>),
       Set(SetContextReg, BaseExt, <<0>>), Set(SetContextReg, Attrib2, <<2^14 + 1>>),
       Set(SetContextReg, Attrib3, <<2^24>>), Set(SetUconfigReg, PrimitiveType, <<4>>),
       Packet(NumInstances, 0, <<1>>), Packet(DrawIndexAuto, 0, <<3, 2>>) >>

\* Packets that another value, a refusal or a misreading comes from.
Extra ==
    { Set(SetShReg, GeometryLo, <<5>>), Set(SetShReg, PixelHi, <<0>>),
      Set(SetShReg, GeometryHi, <<256>>), Set(SetShReg, 7, <<1, 6, 1>>),
      Set(SetShReg, 1023, <<1, 1>>), Set(SetShReg, 2^16, <<1>>), Packet(SetShReg, 0, <<8>>),
      Set(SetContextReg, Base, <<6>>), Set(SetContextReg, Info, <<0>>),
      Set(SetContextReg, Info, <<40 + 2^28>>), Set(SetContextReg, BaseExt, <<1>>),
      Set(SetContextReg, Attrib2, <<3>>), Set(SetContextReg, 1024, <<1>>),
      Set(SetUconfigReg, PrimitiveType, <<5>>), Set(SetUconfigReg, PrimitiveType - 1, <<9, 4>>),
      Packet(SetUconfigReg, 0, <<1>>),
      Packet(NumInstances, 0, <<2>>), Packet(NumInstances, 0, <<1, 1>>),
      Packet(DrawIndexAuto, 0, <<3, 2>>), Packet(DrawIndexAuto, 0, <<3>>),
      Packet(16, 0, <<0>>), Packet(SetShReg, 1, <<8, 3>>), <<1>> }
Benign == { Set(SetShReg, GeometryLo, <<5>>), Set(SetShReg, 7, <<1, 6, 1>>),
            Set(SetContextReg, Base, <<6>>), Set(SetUconfigReg, PrimitiveType, <<4>>),
            Packet(NumInstances, 0, <<1>>) }

Repeated == { Set(SetShReg, 7, <<1, 6, 1>>), Set(SetContextReg, Base, <<6>>) }

Places == 0 .. Len(DrawStream)
Streams ==
    {DrawStream} \cup {RemoveAt(DrawStream, i) : i \in 1 .. Len(DrawStream)}
    \cup {InsertAt(DrawStream, i + 1, p) : i \in Places, p \in Extra}
    \cup {InsertAt(InsertAt(DrawStream, i + 1, p), j + 1, q) :
              i \in {0, 10}, j \in Places, p \in Benign, q \in Repeated}

Submission(words) ==
    [function_id |-> 4, description |-> 1, description_readable |-> TRUE, flag |-> 0,
     words_address |-> 1, word_count |-> Len(words), words |-> words]
Whole == FlattenSeq(DrawStream)
Refused ==
    { [Submission(Whole) EXCEPT !.function_id = 5], [Submission(Whole) EXCEPT !.description = 0],
      [Submission(Whole) EXCEPT !.description_readable = FALSE],
      [Submission(Whole) EXCEPT !.flag = 1], [Submission(Whole) EXCEPT !.words_address = 0],
      [Submission(Whole) EXCEPT !.word_count = Len(Whole) + 1],
      [Submission(Whole) EXCEPT !.word_count = Len(Whole) - 1],
      [Submission(Whole) EXCEPT !.word_count = 999], [Submission(Whole) EXCEPT !.word_count = 0] }

\* Streams that only set shader registers, and one that also draws.
Bindings ==
    { <<DrawStream[2]>>, <<DrawStream[2], Set(SetShReg, PixelHi, <<0>>)>>,
      <<Set(SetShReg, PixelHi, <<1>>), Set(SetShReg, 7, <<1, 6>>), DrawStream[1]>>,
      <<Set(SetShReg, PixelLo, <<3>>)>>, <<DrawStream[2], DrawStream[10]>>,
      <<DrawStream[2], Packet(SetShReg, 1, <<8, 3>>)>>, <<Set(SetShReg, 1023, <<1, 1>>)>> }

Write(destination, values) == Packet(WriteData, 0, <<WriteControl, destination, 2>> \o values)
Writes ==
    { <<Write(0, <<7, 8>>), Write(8, <<9>>)>>, <<Write(4, <<7, 8, 9>>), DrawStream[1]>>,
      <<Write(2, <<7>>), Write(12, <<7, 8>>)>>,
      <<Packet(WriteData, 0, <<1, 0, 2, 7>>), Packet(WriteData, 1, <<WriteControl, 0, 2, 7>>),
        Packet(WriteData, 0, <<WriteControl, 0>>)>> }

MCGoals == {"raster", "bind", "write", "link"}
MCSubmissions ==
    [raster |-> {Submission(FlattenSeq(s)) : s \in Streams} \cup Refused,
     bind |-> {Submission(FlattenSeq(s)) : s \in Bindings},
     write |-> {Submission(FlattenSeq(s)) : s \in Writes},
     link |-> {Submission(<< >>)}]

Shader(stage, code, handle) ==
    [stage |-> stage, profile |-> stage, code |-> code, handle |-> handle]
MCShaders ==
    { Shader("geometry", 512, 1), Shader("pixel", 256 * 131, 2), Shader("pixel", 256 * 134, 1),
      Shader("geometry", 1280, 3) }

Link == [function_id |-> 5, context |-> 2, user_config |-> 36, hull |-> 0, primitive_type |-> 4,
         pre_raster |-> 1, pixel |-> 2]
MCLinkCalls ==
    { Link, [Link EXCEPT !.context = 3, !.user_config = 37], [Link EXCEPT !.context = 1],
      [Link EXCEPT !.function_id = 4], [Link EXCEPT !.context = 0],
      [Link EXCEPT !.user_config = 0], [Link EXCEPT !.hull = 1],
      [Link EXCEPT !.primitive_type = 5], [Link EXCEPT !.context = MaxWord - 20],
      [Link EXCEPT !.user_config = 35], [Link EXCEPT !.pixel = 1], [Link EXCEPT !.pixel = 3],
      [Link EXCEPT !.pre_raster = 2, !.pixel = 1], [Link EXCEPT !.pre_raster = 7] }

\* The planned image takes 512 bytes at 1024; the writes start at 256.
MCAllocations == { <<1024, 512>>, <<768, 1024>>, <<1280, 512>>, <<0, 0>>, <<MaxWord, 2>> }
MCBuffers == { <<256, 8>>, <<264, 8>>, <<256, 16>>, <<254, 12>>, <<0, 0>>,
               <<MaxWord, 2>> }
Same == [base |-> 0, width |-> 0, pitch |-> 0, pixel |-> 4]
MCResized ==
    { Same, [Same EXCEPT !.base = 256], [Same EXCEPT !.base = 4], [Same EXCEPT !.width = 1],
      [Same EXCEPT !.pitch = 4], [Same EXCEPT !.pixel = 2], [Same EXCEPT !.pixel = 0] }
MCLinkWritable == 2 .. 36
=============================================================================
