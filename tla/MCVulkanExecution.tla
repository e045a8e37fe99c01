-------------------------- MODULE MCVulkanExecution --------------------------
EXTENDS VulkanExecution

Family(flags, count) == [flags |-> flags, count |-> count]
AllQueues == Family({"transfer", "graphics", "compute"}, 1)
Device(families, memory) ==
    [families |-> families, format |-> TRUE, extent |-> 2, memory |-> memory]

\* Memory: mapped memory that is and is not coherent, in both orders, and none.
Unified == << {"device_local", "host_visible"}, {"host_visible", "host_coherent"} >>
Discrete == << {"device_local"}, {"host_visible"}, {"device_local", "host_visible",
              "host_coherent"} >>
Opaque == << {"device_local"} >>

MCHosts ==
    { << >>,
      << Device(<<AllQueues>>, Unified) >>,
      << Device(<<Family({"sparse"}, 1), Family({"compute"}, 0), AllQueues>>, Discrete) >>,
      << Device(<<Family({"compute"}, 1)>>, Discrete),
         [Device(<<AllQueues>>, Unified) EXCEPT !.format = FALSE],
         [Device(<<AllQueues>>, Unified) EXCEPT !.extent = 1] >>,
      << Device(<< >>, Unified), Device(<<Family({"transfer"}, 1)>>, Unified) >>,
      << Device(<<AllQueues>>, Opaque) >> }

Region(base, size) == [id |-> 1, base |-> base, byte_size |-> size]
Write4(id, offset, count, destination, values) ==
    [region |-> Region(8, 10),
     resolution |-> [buffer_id |-> id, byte_offset |-> offset, byte_count |-> count],
     operation |-> [destination |-> destination, values |-> values]]
Good == Write4(1, 4, 4, 12, <<7>>)
BufferWrites ==
    { Good, Write4(1, 0, 8, 8, <<7, 9>>), Write4(2, 4, 4, 12, <<7>>), Write4(1, 4, 0, 12, << >>),
      Write4(1, 8, 4, 16, <<7>>), Write4(1, 4, 4, 12, << >>), Write4(1, 4, 4, 12, <<7, 9>>),
      Write4(1, 4, 4, 8, <<7>>), Write4(1, 2, 4, 10, <<7>>),
      [Good EXCEPT !.region = Region(8, 0)], [Good EXCEPT !.region = Region(8, 60)],
      [Write4(1, 0, 12, 8, <<7, 8, 9>>) EXCEPT !.region = Region(8, 12)] }

Picture == [format |-> "r8g8b8a8_unorm", width |-> 2, height |-> 1, bytes_per_pixel |-> 4,
            logical_byte_count |-> 8]
Pictures ==
    { Picture, [Picture EXCEPT !.format = "other"], [Picture EXCEPT !.height = 0],
      [Picture EXCEPT !.bytes_per_pixel = 8], [Picture EXCEPT !.logical_byte_count = 4],
      [Picture EXCEPT !.width = 5, !.height = 4],
      [Picture EXCEPT !.width = 3, !.logical_byte_count = 12] }

State == [layout |-> [descriptor_set |-> 0, binding |-> 0, word_size_bytes |-> 4,
                      wave_size |-> 32, vgpr_stride_words |-> 32, required_vgpr_count |-> 1,
                      required_state_word_count |-> 32],
          initial_words |-> [i \in 1 .. 32 |-> i], module_words |-> 5]
States ==
    { State, [State EXCEPT !.module_words = 0], [State EXCEPT !.layout.wave_size = 16],
      [State EXCEPT !.initial_words = <<1, 2>>],
      [State EXCEPT !.layout.required_vgpr_count = 2] }

MCRequests ==
    [buffer_write |-> BufferWrites, offscreen |-> Pictures, raster |-> Pictures,
     vector |-> States]
=============================================================================
